---- MODULE Spec2Model ----
(***************************************************************************)
(* Adaptive synchronization pipeline of the email ingestion service:      *)
(* the Redis-backed token bucket (rate_limiter.py), the Gmail list call   *)
(* with its retry loop (gmail_client.py, gmail_api_client.py, retry.py)   *)
(* and the per-user ingestion loop (main.py).                             *)
(*                                                                         *)
(* Three specifications share the variables:                              *)
(*   SpecBucket  the token bucket under acquire / refill / reset / time   *)
(*   SpecFetch   one list call of either Gmail client against the bucket  *)
(*   SpecLoop    start / stop / background run / scheduled re-run         *)
(***************************************************************************)
EXTENDS Integers, Sequences, FiniteSets, TLC

VARIABLES
    bucket,             \* Redis keys <bucket_name>:tokens and :last_refill
    limiter,            \* TokenBucketRateLimiter attributes
    clock,              \* int(time.time())
    obs,                \* the last limiter call: arguments, result, bucket before / after refill
    call,               \* the list call in progress (SpecFetch)
    active_ingestions,  \* main.active_ingestions: user_id -> EmailIngestionStatus
    tasks,              \* coroutines on the event loop: task slot -> frame
    last_message,       \* Redis key email_sync:<user>:last_message (its "message_id")
    metrics,            \* Redis key email_sync:<user>:metrics: the list of samples
    appended,           \* every sample appended to the user's metrics, in order (history)
    store_obs,          \* the last call of a SyncStateManager method: arguments and result
    strategy,           \* a polling strategy object: its attributes
    strategy_obs,       \* the last constructor or calculate call on a strategy
    listing,            \* a get_emails_since / get_all_emails call: its locals and list calls
    response,           \* the last answer of a route /ingest/start, /ingest/stop, /ingest/status
    rabbit,             \* a RabbitMQClient and the call in progress on it
    sequence,           \* a sequence of acquire_tokens calls by one caller: start count, granted sum
    workers,            \* workers sharing the bucket: the acquire_tokens call of each, store step by store step
    batch,              \* a get_emails_batch call: its detail fetches, what it yielded and raised
    redis,              \* the Redis keyspace of SyncStateManager: key -> stored JSON text
    sync_calls,         \* the last SyncStateManager call on the keyspace and the values its calls stored
    consumer            \* the classification RabbitMQConsumer and the messages delivered to it

\* The state besides the email service's ingestion: the objects exercised on their own.
components == <<strategy, strategy_obs, listing, response, rabbit,
                sequence,
                workers,
                batch,
                redis,
                sync_calls,
                consumer>>

vars == <<bucket, limiter, clock, obs, call, active_ingestions, tasks, last_message,
          metrics, appended, store_obs, components>>

\* A Redis key that is not set / a Python None.
None == -1

Min(a, b) == IF a <= b THEN a ELSE b

Max(a, b) == IF a >= b THEN a ELSE b

RECURSIVE Pow2(_)
Pow2(k) == IF k <= 0 THEN 1 ELSE 2 * Pow2(k - 1)

(***************************************************************************)
(* Bounds of the model.                                                    *)
(***************************************************************************)
MaxMaxTokens == 3       \* max_tokens ranges over 1..MaxMaxTokens
MaxRefillRate == 2      \* refill_rate ranges over 1..MaxRefillRate
MaxRefillTime == 2      \* refill_time ranges over 1..MaxRefillTime
MaxClock == 5           \* the clock runs over 0..MaxClock
MaxConsume == 3         \* tokens_to_consume ranges over 0..MaxConsume
MaxTasks == 2           \* coroutines alive at once on the event loop
MailboxSize == 2        \* messages the provider lists for the user: ids 1..MailboxSize
BatchSize == 1          \* config.batch_size
MaxProcessed == 3       \* emails_processed is followed up to this value
MaxAppends == 11        \* samples recorded by a caller of SyncStateManager
MaxLoopSamples == 1     \* samples of the loop that the store accepts; the later ones fail
MaxSamples == 2         \* length of a metrics list given to a strategy
MaxMatching == 3        \* messages of the mailbox that a query matches: 0..MaxMatching
MaxPageSize == 2        \* GmailClient.batch_size, the page size of a list call: 1..MaxPageSize
MaxMaxEmails == 3       \* max_emails of a listing: 0..MaxMaxEmails

(***************************************************************************)
(* rate_limiter.py: TokenBucketRateLimiter.  The Redis client is the      *)
(* synchronous one, so a call has no suspension point inside it: within   *)
(* one worker it is a single step.  b is the bucket as stored, now is     *)
(* int(time.time()), lim the limiter's attributes.                        *)
(***************************************************************************)
EmptyBucket == [tokens |-> None, last_refill |-> None]

reset_bucket(b, now, lim) ==
    [tokens |-> lim.max_tokens, last_refill |-> now]

\* A read of the count that takes a stored 0 for a missing key and resets.
get_current_tokens_resetting(b, now, lim) ==
    IF b.tokens = None \/ b.tokens = 0
    THEN [value |-> lim.max_tokens, bucket |-> reset_bucket(b, now, lim)]
    ELSE [value |-> b.tokens, bucket |-> b]

\* _get_current_tokens: the value returned and the bucket it leaves.
get_current_tokens(b, now, lim) ==
    IF b.tokens = None
    THEN [value |-> lim.max_tokens, bucket |-> reset_bucket(b, now, lim)]
    ELSE [value |-> b.tokens, bucket |-> b]

\* A refill that forgets the cap at max_tokens.
refill_tokens_uncapped(b, now, lim) ==
    IF b.last_refill = None
    THEN reset_bucket(b, now, lim)
    ELSE LET time_passed == now - b.last_refill
         IN  IF time_passed < lim.refill_time
             THEN b
             ELSE [tokens |-> get_current_tokens(b, now, lim).value
                                + (time_passed \div lim.refill_time) * lim.refill_rate,
                   last_refill |-> now]

\* A refill that advances last_refill by whole periods instead of setting it to now.
refill_tokens_by_periods(b, now, lim) ==
    IF b.last_refill = None
    THEN reset_bucket(b, now, lim)
    ELSE LET time_passed == now - b.last_refill
             periods_passed == time_passed \div lim.refill_time
         IN  IF time_passed < lim.refill_time
             THEN b
             ELSE [tokens |-> Min(get_current_tokens(b, now, lim).value
                                    + periods_passed * lim.refill_rate, lim.max_tokens),
                   last_refill |-> b.last_refill + periods_passed * lim.refill_time]

\* _refill_tokens
refill_tokens(b, now, lim) ==
    IF b.last_refill = None
    THEN reset_bucket(b, now, lim)
    ELSE LET time_passed == now - b.last_refill
         IN  IF time_passed < lim.refill_time
             THEN b
             ELSE LET periods_passed == time_passed \div lim.refill_time
                      tokens_to_add == periods_passed * lim.refill_rate
                  IN  IF tokens_to_add <= 0
                      THEN b
                      ELSE LET current_tokens == get_current_tokens(b, now, lim).value
                           IN  [tokens |-> Min(current_tokens + tokens_to_add, lim.max_tokens),
                                last_refill |-> now]

\* An acquire that drains the bucket when it cannot serve the request.
acquire_tokens_draining(b, n, now, lim) ==
    LET refilled == refill_tokens(b, now, lim)
        cur == get_current_tokens(refilled, now, lim)
    IN  IF cur.value < n
        THEN [ret |-> FALSE, refilled |-> refilled,
              bucket |-> [cur.bucket EXCEPT !.tokens = 0]]
        ELSE [ret |-> TRUE, refilled |-> refilled,
              bucket |-> [cur.bucket EXCEPT !.tokens = cur.value - n]]

\* An acquire that grants what is left when it cannot serve the request.
acquire_tokens_granting(b, n, now, lim) ==
    LET refilled == refill_tokens(b, now, lim)
        cur == get_current_tokens(refilled, now, lim)
    IN  [ret |-> TRUE, refilled |-> refilled,
         bucket |-> [cur.bucket EXCEPT !.tokens = Max(cur.value - n, 0)]]

\* acquire_tokens: the result, the bucket after the refill step, the bucket left.
acquire_tokens(b, n, now, lim) ==
    LET refilled == refill_tokens(b, now, lim)
        cur == get_current_tokens(refilled, now, lim)
    IN  IF cur.value < n
        THEN [ret |-> FALSE, refilled |-> refilled, bucket |-> cur.bucket]
        ELSE [ret |-> TRUE, refilled |-> refilled,
              bucket |-> [cur.bucket EXCEPT !.tokens = cur.value - n]]

Limiters ==
    [max_tokens : 1..MaxMaxTokens, refill_rate : 1..MaxRefillRate, refill_time : 1..MaxRefillTime]

NoObs == [op |-> "none", n |-> 0, ret |-> FALSE, now |-> 0,
          before |-> EmptyBucket, refilled |-> EmptyBucket]

\* The variables the bucket specification leaves alone.
otherThanBucket == <<call, active_ingestions, tasks, last_message,
                     metrics, appended, store_obs, components>>

\* await rate_limiter.acquire_tokens(n)
Acquire ==
    \E n \in 0..MaxConsume :
        LET r == acquire_tokens(bucket, n, clock, limiter)
        IN  /\ bucket' = r.bucket
            /\ obs' = [op |-> "acquire", n |-> n, ret |-> r.ret, now |-> clock,
                       before |-> bucket, refilled |-> r.refilled]
            /\ UNCHANGED <<limiter, clock>>
            /\ UNCHANGED otherThanBucket

\* await rate_limiter._refill_tokens(), called on its own as the unit test does
Refill ==
    LET r == refill_tokens(bucket, clock, limiter)
    IN  /\ bucket' = r
        /\ obs' = [op |-> "refill", n |-> 0, ret |-> FALSE, now |-> clock,
                   before |-> bucket, refilled |-> r]
        /\ UNCHANGED <<limiter, clock>>
        /\ UNCHANGED otherThanBucket

\* await rate_limiter.reset_bucket()
Reset ==
    /\ bucket' = reset_bucket(bucket, clock, limiter)
    /\ obs' = [op |-> "reset", n |-> 0, ret |-> FALSE, now |-> clock,
               before |-> bucket, refilled |-> bucket']
    /\ UNCHANGED <<limiter, clock>>
    /\ UNCHANGED otherThanBucket

\* Wall-clock time passes.
Tick ==
    /\ clock < MaxClock
    /\ \E d \in 1..(MaxClock - clock) : clock' = clock + d
    /\ UNCHANGED <<bucket, limiter, obs>>
    /\ UNCHANGED otherThanBucket

(***************************************************************************)
(* A caller making acquire_tokens calls one after the other on a bucket    *)
(* that exists.  The sequence is followed from the bucket it starts with;  *)
(* it ends (and another may begin) when a call's refill step writes, which *)
(* is when a refill period has passed since last_refill.                   *)
(***************************************************************************)
MaxCalls == 3           \* calls followed in one sequence

NoSequence == [active |-> FALSE, start |-> 0, granted |-> 0, calls |-> 0]

otherThanSequence == <<call, active_ingestions, tasks, last_message, metrics, appended,
                       store_obs, strategy, strategy_obs, listing, response, rabbit,
                       workers,
                       batch,
                       redis,
                       sync_calls,
                       consumer>>

\* The caller starts counting at the bucket as it is stored now.
BeginSequence ==
    /\ bucket.tokens # None /\ bucket.last_refill # None
    /\ sequence' = [active |-> TRUE, start |-> bucket.tokens, granted |-> 0, calls |-> 0]
    /\ UNCHANGED <<bucket, limiter, clock, obs>>
    /\ UNCHANGED otherThanSequence

\* await rate_limiter.acquire_tokens(n), the next call of the sequence.
SequenceAcquire ==
    /\ sequence.active /\ sequence.calls < MaxCalls
    /\ \E n \in 0..MaxConsume :
        LET r == acquire_tokens(bucket, n, clock, limiter)
        IN  /\ bucket' = r.bucket
            /\ obs' = [op |-> "acquire", n |-> n, ret |-> r.ret, now |-> clock,
                       before |-> bucket, refilled |-> r.refilled]
            /\ sequence' = IF r.refilled # bucket THEN NoSequence
                           ELSE [sequence EXCEPT !.calls = @ + 1,
                                    !.granted = IF r.ret THEN @ + n ELSE @]
    /\ UNCHANGED <<limiter, clock>>
    /\ UNCHANGED otherThanSequence

(***************************************************************************)
(* Workers (processes) sharing the bucket through Redis.  Each GET and SET *)
(* of a worker's acquire_tokens(1) is a step of its own; what a worker     *)
(* computes between two store commands goes with the command that follows  *)
(* the values it read.  pc names the store command the worker is about to  *)
(* send; wrote tells that the call reset or refilled the bucket, overlap   *)
(* that another worker's call was in progress during this one.             *)
(***************************************************************************)
Workers == {1, 2}

IdleWorker == [pc |-> "done", n |-> 0, ret |-> FALSE, current_time |-> 0, tokens_to_add |-> 0,
               current_tokens |-> 0, after |-> "none", wrote |-> FALSE, overlap |-> FALSE]

otherThanWorkers == <<limiter, obs, call, active_ingestions, tasks, last_message, metrics,
                      appended, store_obs, strategy, strategy_obs, listing, response, rabbit,
                      sequence,
                      batch,
                      redis,
                      sync_calls,
                      consumer>>

\* acquire_tokens after _get_current_tokens returned current_tokens: return False,
\* or go on to the SET of the consume step.
AfterGetTokens(f) ==
    IF f.current_tokens < f.n
    THEN [f EXCEPT !.pc = "done", !.ret = FALSE]
    ELSE [f EXCEPT !.pc = "consume_set_tokens"]

\* The call begins: _refill_tokens, GET last_refill, and the arithmetic up to the
\* next store command.
RefillGetLastRefill ==
    /\ \E w \in Workers :
        /\ workers[w].pc = "done"
        /\ LET others == {v \in Workers \ {w} : workers[v].pc # "done"}
               f == [IdleWorker EXCEPT !.n = 1, !.overlap = (others # {})]
               time_passed == clock - bucket.last_refill
               tokens_to_add == (time_passed \div limiter.refill_time) * limiter.refill_rate
           IN  workers' = [v \in Workers |->
                    IF v \in others THEN [workers[v] EXCEPT !.overlap = TRUE]
                    ELSE IF v # w THEN workers[v]
                    ELSE IF bucket.last_refill = None
                    THEN [f EXCEPT !.pc = "reset_set_tokens", !.after = "get_tokens"]
                    ELSE IF time_passed < limiter.refill_time \/ tokens_to_add <= 0
                    THEN [f EXCEPT !.pc = "get_tokens"]
                    ELSE [f EXCEPT !.pc = "refill_get_tokens", !.current_time = clock,
                                   !.tokens_to_add = tokens_to_add]]
    /\ UNCHANGED <<bucket, clock>>
    /\ UNCHANGED otherThanWorkers

\* _refill_tokens: _get_current_tokens, GET tokens.
RefillGetTokens ==
    /\ \E w \in Workers :
        /\ workers[w].pc = "refill_get_tokens"
        /\ workers' = [workers EXCEPT ![w] =
                IF bucket.tokens = None
                THEN [@ EXCEPT !.pc = "reset_set_tokens", !.after = "refill_set_tokens",
                               !.current_tokens = limiter.max_tokens]
                ELSE [@ EXCEPT !.pc = "refill_set_tokens", !.current_tokens = bucket.tokens]]
    /\ UNCHANGED <<bucket, clock>>
    /\ UNCHANGED otherThanWorkers

\* _refill_tokens: SET tokens min(current_tokens + tokens_to_add, max_tokens).
RefillSetTokens ==
    /\ \E w \in Workers :
        /\ workers[w].pc = "refill_set_tokens"
        /\ bucket' = [bucket EXCEPT !.tokens =
                Min(workers[w].current_tokens + workers[w].tokens_to_add, limiter.max_tokens)]
        /\ workers' = [workers EXCEPT ![w].pc = "refill_set_last_refill", ![w].wrote = TRUE]
    /\ UNCHANGED clock
    /\ UNCHANGED otherThanWorkers

\* _refill_tokens: SET last_refill current_time.
RefillSetLastRefill ==
    /\ \E w \in Workers :
        /\ workers[w].pc = "refill_set_last_refill"
        /\ bucket' = [bucket EXCEPT !.last_refill = workers[w].current_time]
        /\ workers' = [workers EXCEPT ![w].pc = "get_tokens"]
    /\ UNCHANGED clock
    /\ UNCHANGED otherThanWorkers

\* reset_bucket: current_time = int(time.time()), SET tokens max_tokens.
ResetSetTokens ==
    /\ \E w \in Workers :
        /\ workers[w].pc = "reset_set_tokens"
        /\ bucket' = [bucket EXCEPT !.tokens = limiter.max_tokens]
        /\ workers' = [workers EXCEPT ![w].pc = "reset_set_last_refill",
                                      ![w].current_time = clock, ![w].wrote = TRUE]
    /\ UNCHANGED clock
    /\ UNCHANGED otherThanWorkers

\* reset_bucket: SET last_refill current_time, and the return to the caller of
\* reset_bucket: _refill_tokens, which returns, or _get_current_tokens, which
\* returns max_tokens to _refill_tokens or to acquire_tokens.
ResetSetLastRefill ==
    /\ \E w \in Workers :
        /\ workers[w].pc = "reset_set_last_refill"
        /\ bucket' = [bucket EXCEPT !.last_refill = workers[w].current_time]
        /\ LET f == workers[w]
           IN  workers' = [workers EXCEPT ![w] =
                    IF f.after = "check" THEN AfterGetTokens(f)
                    ELSE [f EXCEPT !.pc = f.after]]
    /\ UNCHANGED clock
    /\ UNCHANGED otherThanWorkers

\* acquire_tokens: _get_current_tokens, GET tokens, and the comparison with
\* tokens_to_consume.
GetTokens ==
    /\ \E w \in Workers :
        /\ workers[w].pc = "get_tokens"
        /\ workers' = [workers EXCEPT ![w] =
                IF bucket.tokens = None
                THEN [@ EXCEPT !.pc = "reset_set_tokens", !.after = "check",
                               !.current_tokens = limiter.max_tokens]
                ELSE AfterGetTokens([@ EXCEPT !.current_tokens = bucket.tokens])]
    /\ UNCHANGED <<bucket, clock>>
    /\ UNCHANGED otherThanWorkers

\* acquire_tokens: SET tokens current_tokens - tokens_to_consume, return True.
ConsumeSetTokens ==
    /\ \E w \in Workers :
        /\ workers[w].pc = "consume_set_tokens"
        /\ bucket' = [bucket EXCEPT !.tokens = workers[w].current_tokens - workers[w].n]
        /\ workers' = [workers EXCEPT ![w].pc = "done", ![w].ret = TRUE]
    /\ UNCHANGED clock
    /\ UNCHANGED otherThanWorkers

\* Wall-clock time passes while the workers run.
WorkersTick ==
    /\ clock < MaxClock
    /\ clock' = clock + 1
    /\ UNCHANGED <<bucket, workers>>
    /\ UNCHANGED otherThanWorkers

(***************************************************************************)
(* The list call of the two Gmail clients: GmailClient.get_email_list     *)
(* (gmail_client.py, the client main.py constructs) with its own retry    *)
(* loop, and GmailApiClient.get_email_list (gmail_api_client.py) under    *)
(* the decorator async_retry_on_rate_limit (shared/utils/retry.py).       *)
(***************************************************************************)
max_retries == 5        \* GmailClient.__init__ default; the decorator's argument
retry_delay == 1        \* GmailClient.__init__ default; the decorator's base_delay

\* mock_func is a function under the decorator that lets the HttpError of the
\* answer out as it is (shared/utils/test_retry.py).
Clients == {"GmailClient", "GmailApiClient", "mock_func"}

\* What request.execute() may answer: success, or an HttpError with this status.
HttpStatuses == {200, 401, 403, 404, 429, 500}

\* except exception_types as error, with the decorator's default exception_types.
exception_types == {"HttpError"}

\* The decorator's default rate_limit_codes.
rate_limit_codes == {429}

\* What the body of get_email_list returns or raises for an HTTP status.
\* GmailClient lets the HttpError reach its own retry loop; GmailApiClient maps it.
list_outcome(client, status) ==
    IF status = 200 THEN "messages"
    ELSE IF client \in {"GmailClient", "mock_func"} THEN "HttpError"
    ELSE IF status = 401 \/ status = 403 THEN "AuthenticationError"
    ELSE IF status = 404 THEN "empty"
    ELSE IF status = 429 THEN "RateLimitError"
    ELSE "ExternalServiceError"

\* What the body of get_email_details returns or raises for an HTTP status.
details_outcome(client, status) ==
    IF status = 200 THEN "message"
    ELSE IF client \in {"GmailClient", "mock_func"} THEN "HttpError"
    ELSE IF status = 401 \/ status = 403 THEN "AuthenticationError"
    ELSE IF status = 404 THEN "ResourceNotFoundError"
    ELSE IF status = 429 THEN "RateLimitError"
    ELSE "ExternalServiceError"

Operations == {"get_email_list", "get_email_details"}

\* A client in which both operations raise ResourceNotFoundError for a 404.
call_outcome_not_found_raises(op, client, status) ==
    IF status = 404 /\ client = "GmailApiClient" THEN "ResourceNotFoundError"
    ELSE IF op = "get_email_list" THEN list_outcome(client, status)
    ELSE details_outcome(client, status)

\* The outcome of the body of the operation op.
call_outcome(op, client, status) ==
    IF op = "get_email_list" THEN list_outcome(client, status)
    ELSE details_outcome(client, status)

IsException(outcome) == outcome \notin {"messages", "message", "empty"}

\* A retry rule that sleeps and tries again after any error, up to max_retries attempts.
retries_any_error(client, status, attempt) ==
    IsException(list_outcome(client, status)) /\ attempt < max_retries - 1

\* Whether the attempt is followed by a sleep and another attempt; the rule is the
\* same for get_email_details, whose body raises HttpError for the same answers.
\* GmailClient: error.resp.status == 429 and attempt < self.max_retries - 1.
\* Decorator: the exception is one of exception_types, and not
\* (attempt >= max_retries - 1 or not is_rate_limit).
retries(client, status, attempt) ==
    LET outcome == list_outcome(client, status)
    IN  IF client = "GmailClient"
        THEN outcome = "HttpError" /\ status = 429 /\ attempt < max_retries - 1
        ELSE /\ outcome \in exception_types
             /\ ~(attempt >= max_retries - 1 \/ status \notin rate_limit_codes)

\* A delay that does not grow.
backoff_constant(attempt) == retry_delay

\* retry_delay * (2 ** attempt)
backoff(attempt) == retry_delay * Pow2(attempt)

NoCall == [client |-> "none", op |-> "none", pc |-> "idle", attempt |-> 0, acquired |-> "none",
           statuses |-> <<>>, sleeps |-> <<>>, result |-> "pending"]

otherThanCall == <<limiter, obs, active_ingestions, tasks, last_message,
                   metrics, appended, store_obs, components>>

\* get_email_list or get_email_details is called.
BeginCall ==
    /\ call.pc = "idle"
    /\ \E c \in Clients, op \in Operations :
        call' = [NoCall EXCEPT !.client = c, !.op = op, !.pc = "acquire"]
    /\ UNCHANGED <<bucket, clock>>
    /\ UNCHANGED otherThanCall

\* await self.rate_limiter.acquire_tokens(1): the result is dropped by both clients.
CallAcquire ==
    /\ call.pc = "acquire"
    /\ LET r == acquire_tokens(bucket, 1, clock, limiter)
       IN  /\ bucket' = r.bucket
           /\ call' = [call EXCEPT !.pc = "execute",
                                   !.acquired = IF r.ret THEN "true" ELSE "false"]
    /\ UNCHANGED clock
    /\ UNCHANGED otherThanCall

\* request.execute(), and what the client does with the answer.
CallExecute ==
    /\ call.pc = "execute"
    /\ \E status \in HttpStatuses :
        LET outcome == call_outcome(call.op, call.client, status)
            seen == Append(call.statuses, status)
        IN  IF retries(call.client, status, call.attempt)
            THEN call' = [call EXCEPT !.pc = "sleep", !.statuses = seen,
                                      !.sleeps = Append(call.sleeps, backoff(call.attempt))]
            ELSE call' = [call EXCEPT !.pc = "done", !.statuses = seen, !.result = outcome]
    /\ UNCHANGED <<bucket, clock>>
    /\ UNCHANGED otherThanCall

\* await asyncio.sleep(retry_delay) ends.  GmailClient executes the same request
\* again; the decorator calls the function again, which acquires again.  The clock
\* advances by the delay, and stays at MaxClock once it is there.
CallSleep ==
    /\ call.pc = "sleep"
    /\ clock' = Min(clock + call.sleeps[Len(call.sleeps)], MaxClock)
    /\ call' = [call EXCEPT !.attempt = call.attempt + 1,
                            !.pc = IF call.client = "GmailClient" THEN "execute" ELSE "acquire"]
    /\ UNCHANGED bucket
    /\ UNCHANGED otherThanCall

\* The caller has the result.
EndCall ==
    /\ call.pc = "done"
    /\ call' = NoCall
    /\ UNCHANGED <<bucket, clock>>
    /\ UNCHANGED otherThanCall

(***************************************************************************)
(* sync_state.py: SyncStateManager, and the polling strategy it is given  *)
(* (strategies/volume_based_polling.py).  A metrics sample is a dict; the *)
(* model keeps the key that the strategy reads, email_count, the chunk    *)
(* size batch_size and the timestamp, with None for a key the dict does   *)
(* not have.  total_processed, which nothing reads, is left out.          *)
(***************************************************************************)
MetricsKept == 10               \* metrics_list[-10:]
default_interval == 5           \* calculate_optimal_polling_interval_minutes
HIGH_VOLUME_THRESHOLD == 50
MEDIUM_VOLUME_THRESHOLD == 10
HIGH_VOLUME_INTERVAL == 2
MEDIUM_VOLUME_INTERVAL == 5
LOW_VOLUME_INTERVAL == 15
DEFAULT_INTERVAL == 5

\* What can go wrong in a store operation: the connection cannot be set up
\* (initialize), the command fails on the connection, it times out, or the
\* stored text is not JSON.
StoreFaults == {"none", "initialize", "ConnectionError", "TimeoutError", "JSONDecodeError"}

\* The operations that json.loads a stored text.
DecodingOps == {"get_sync_state", "get_last_message_id",
                "update_sync_metrics_in_redis", "get_sync_metrics"}

\* _redis_operation and the operation inside it: the exception class the caller
\* of a store operation sees.  A JSONDecodeError is raised again as SyncStateError
\* inside the operation, and once more by _redis_operation's except Exception.
redis_operation(op, fault) ==
    IF fault = "none" THEN "none"
    ELSE IF fault = "initialize" THEN "ConfigurationError"
    ELSE IF fault \in {"ConnectionError", "TimeoutError"} THEN "SyncStateError"
    ELSE IF op \in DecodingOps THEN "SyncStateError"
    ELSE "none"

\* The dict ingest_emails_background builds for a chunk; update_sync_metrics_in_redis
\* sets its timestamp.
sync_metrics(batch_len, now) ==
    [email_count |-> None, batch_size |-> batch_len, timestamp |-> now]

\* A capped append that keeps the first MetricsKept samples.
update_sync_metrics_keep_oldest(metrics_list, sample) ==
    LET l == Append(metrics_list, sample)
    IN  IF Len(l) > MetricsKept THEN SubSeq(l, 1, MetricsKept) ELSE l

\* update_sync_metrics_in_redis: the list that is stored.
update_sync_metrics(metrics_list, sample) ==
    LET l == Append(metrics_list, sample)
    IN  IF Len(l) > MetricsKept THEN SubSeq(l, Len(l) - MetricsKept + 1, Len(l)) ELSE l

RECURSIVE SumCounts(_)
SumCounts(s) == IF s = <<>> THEN 0 ELSE s[1].email_count + SumCounts(Tail(s))

HasCount(m) == m.email_count # None

\* Python's `x or d` on an int or None: None and 0 are false.
Or(x, d) == IF x = None \/ x = 0 THEN d ELSE x

\* VolumeBasedPollingStrategy.__init__: the attributes for the arguments given
\* (None for one that is left out).
VolumeBasedPollingStrategy(args) ==
    [high_volume_threshold |-> Or(args.high_volume_threshold, HIGH_VOLUME_THRESHOLD),
     medium_volume_threshold |-> Or(args.medium_volume_threshold, MEDIUM_VOLUME_THRESHOLD),
     high_volume_interval |-> Or(args.high_volume_interval, HIGH_VOLUME_INTERVAL),
     medium_volume_interval |-> Or(args.medium_volume_interval, MEDIUM_VOLUME_INTERVAL),
     low_volume_interval |-> Or(args.low_volume_interval, LOW_VOLUME_INTERVAL)]

\* VolumeBasedPollingStrategy() as main.py constructs it.
NoVolumeArgs ==
    [high_volume_threshold |-> None, medium_volume_threshold |-> None,
     high_volume_interval |-> None, medium_volume_interval |-> None,
     low_volume_interval |-> None]

\* VolumeBasedPollingStrategy.calculate_polling_interval_minutes of the object self
\* on a list of samples.
volume_strategy_interval(self, metrics_list) ==
    LET email_counts == SelectSeq(metrics_list, HasCount)
    IN  IF metrics_list = <<>> THEN DEFAULT_INTERVAL
        ELSE IF email_counts = <<>> THEN DEFAULT_INTERVAL
        \* avg_email_count = sum / len, compared with the thresholds
        ELSE IF SumCounts(email_counts) >= self.high_volume_threshold * Len(email_counts)
             THEN self.high_volume_interval
        ELSE IF SumCounts(email_counts) >= self.medium_volume_threshold * Len(email_counts)
             THEN self.medium_volume_interval
        ELSE self.low_volume_interval

\* The same on the strategy main.py gives the SyncStateManager.
volume_interval(metrics_list) ==
    volume_strategy_interval(VolumeBasedPollingStrategy(NoVolumeArgs), metrics_list)

\* The strategy on the argument it is given: None, one sample (a dict) or a list
\* (value holds the samples).  A dict with keys is true, and iterating it yields
\* its keys, strings, on which m.get raises AttributeError.
calculate_polling_interval_minutes(arg) ==
    IF arg.kind = "None" THEN [raised |-> "none", value |-> DEFAULT_INTERVAL]
    ELSE IF arg.kind = "dict" THEN [raised |-> "AttributeError", value |-> 0]
    ELSE [raised |-> "none", value |-> volume_interval(arg.value)]

\* latest_metrics = metrics_list[-1] if metrics_list else None
latest_metrics(metrics_list) ==
    IF metrics_list # <<>>
    THEN [kind |-> "dict", value |-> <<metrics_list[Len(metrics_list)]>>]
    ELSE [kind |-> "None", value |-> <<>>]

\* calculate_optimal_polling_interval_minutes: what it returns for the stored list
\* and the fault met by get_sync_metrics.
calculate_optimal_polling_interval_minutes(metrics_list, fault) ==
    IF redis_operation("get_sync_metrics", fault) # "none" THEN default_interval
    ELSE LET r == calculate_polling_interval_minutes(latest_metrics(metrics_list))
         IN  IF r.raised # "none" THEN default_interval ELSE r.value

(***************************************************************************)
(* main.py: the ingestion loop.  active_ingestions is the module's dict;  *)
(* a task slot holds the frame of one coroutine (ingest_emails_background *)
(* or schedule_next_ingestion) between two of its awaits.  Each action is *)
(* the resumption of a coroutine from an await: what the awaited call did *)
(* and the code up to the next await.  The key email_sync:<user>:state    *)
(* that save_sync_state writes is read back only to be logged, and is not *)
(* followed: the awaits of save_sync_state are steps without an effect on *)
(* the variables other than the task's own frame.                         *)
(***************************************************************************)
Users == {"u1"}

Slots == 1..MaxTasks

\* config.bypass_date_filter.  EmailIngestionConfig declares no such field, so a
\* config built by the /ingest/start route has it "absent" and reading it raises
\* AttributeError; a caller's own config object may carry it.  With a true value
\* the fetch is get_all_emails instead of get_emails_since: both list the
\* mailbox, and the model follows the one value "false" for them.
BypassValues == {"absent", "false"}

\* config.polling_frequency_minutes: the default and another value the field allows.
PollingFrequencies == {5, 15}

\* A frame keeps the locals that are read again: the handlers read user_id only,
\* and after the chunk loop only user_id and config are read.
\* published is the history of the run: the ids it has published.  next_sync, of
\* schedule_next_ingestion, is in minutes from the end of the run.
FreeFrame == [kind |-> "free", user |-> "none", pc |-> "none", bypass |-> "absent",
              emails |-> 0, i |-> 0, last_message_id |-> None,
              exc |-> "none", chunk_failed |-> FALSE, cause |-> 0, published |-> {},
              polling_frequency_minutes |-> 0, next_sync |-> 0]

NewIngest(u, bypass, freq) ==
    [FreeFrame EXCEPT !.kind = "ingest", !.user = u, !.pc = "begin", !.bypass = bypass,
                      !.polling_frequency_minutes = freq]

FreeSlots == {t \in Slots : tasks[t].kind = "free"}

FirstFree == CHOOSE t \in FreeSlots : \A o \in FreeSlots : t <= o

\* The except clauses of ingest_emails_background, by exception class.
status_for(exc) ==
    IF exc = "AuthenticationError" THEN "auth_error"
    ELSE IF exc \in {"ExternalServiceError", "RateLimitError", "SyncStateError"}
         THEN "service_error"
    ELSE "error"

\* The except clauses of process_email_batch: what leaves it for what was raised inside.
process_email_batch_raises(inner) ==
    IF inner \in {"AuthenticationError", "ExternalServiceError"} THEN inner
    ELSE "EmailProcessingError"

\* emails[i:i+config.batch_size] holds the messages i+1 .. ChunkEnd(f).
ChunkEnd(f) == Min(f.i + BatchSize, f.emails)

otherThanLoop == <<bucket, limiter, clock, obs, call, store_obs, components>>

\* An exception reaches the handlers of ingest_emails_background in task t; cause
\* is the HTTP status behind it when the provider's answer raised it, else 0.  The
\* handler writes active_ingestions[user_id].status, which raises KeyError when
\* the user has been removed: the task then dies with it.
Handle(t, exc, in_chunk, cause) ==
    LET u == tasks[t].user
    IN  IF u \in DOMAIN active_ingestions
        THEN /\ active_ingestions' = [active_ingestions EXCEPT ![u].status = status_for(exc)]
             /\ tasks' = [tasks EXCEPT ![t] =
                    [FreeFrame EXCEPT !.kind = "ingest", !.user = u, !.pc = "save_error",
                                      !.exc = exc, !.chunk_failed = in_chunk,
                                      !.cause = cause]]
        ELSE /\ tasks' = [tasks EXCEPT ![t] = FreeFrame]
             /\ UNCHANGED active_ingestions

\* The head of the for loop at index i in task t with frame f (already updated):
\* the next chunk's emails_processed += len(batch) and the await of
\* process_email_batch, or, past the last chunk, status = "completed" and the
\* await of save_sync_state.
LoopHead(t, f) ==
    LET u == f.user
    IN  IF u \notin DOMAIN active_ingestions
        THEN /\ tasks' = [tasks EXCEPT ![t] = FreeFrame]     \* KeyError, again in the handler
             /\ UNCHANGED active_ingestions
        ELSE IF f.i < f.emails
        THEN /\ active_ingestions[u].emails_processed + (ChunkEnd(f) - f.i) <= MaxProcessed
             /\ active_ingestions' = [active_ingestions EXCEPT
                    ![u].emails_processed = @ + (ChunkEnd(f) - f.i)]
             /\ tasks' = [tasks EXCEPT ![t] = [f EXCEPT !.pc = "process"]]
        ELSE /\ active_ingestions' = [active_ingestions EXCEPT ![u].status = "completed"]
             /\ tasks' = [tasks EXCEPT ![t] =
                    [FreeFrame EXCEPT !.kind = "ingest", !.user = u, !.pc = "save_state",
                                      !.bypass = f.bypass,
                                      !.polling_frequency_minutes =
                                            f.polling_frequency_minutes]]

\* POST /ingest/start for a user with no entry: the status is created and the
\* background task added.
Start ==
    /\ \E u \in Users, bypass \in BypassValues, freq \in PollingFrequencies :
        /\ u \notin DOMAIN active_ingestions
        /\ FreeSlots # {}
        /\ active_ingestions' = [v \in DOMAIN active_ingestions \cup {u} |->
                IF v = u THEN [status |-> "starting", emails_processed |-> 0]
                ELSE active_ingestions[v]]
        /\ tasks' = [tasks EXCEPT ![FirstFree] = NewIngest(u, bypass, freq)]
    /\ UNCHANGED <<last_message, metrics, appended>>
    /\ UNCHANGED otherThanLoop

\* POST /ingest/stop/{user_id} for a user with an entry: status = "stopped" on the
\* object, which is then popped from the dict.
Stop ==
    /\ \E u \in DOMAIN active_ingestions :
        active_ingestions' = [v \in DOMAIN active_ingestions \ {u} |-> active_ingestions[v]]
    /\ UNCHANGED <<tasks, last_message, metrics, appended>>
    /\ UNCHANGED otherThanLoop

\* ingest_emails_background starts to run: status = "running", then the await of
\* get_last_message_id.
RunBegin ==
    /\ \E t \in Slots :
        /\ tasks[t].kind = "ingest" /\ tasks[t].pc = "begin"
        /\ IF tasks[t].user \in DOMAIN active_ingestions
           THEN /\ active_ingestions' =
                        [active_ingestions EXCEPT ![tasks[t].user].status = "running"]
                /\ tasks' = [tasks EXCEPT ![t].pc = "load"]
           ELSE Handle(t, "KeyError", FALSE, 0)
    /\ UNCHANGED <<last_message, metrics, appended>>
    /\ UNCHANGED otherThanLoop

\* get_last_message_id and get_sync_state return, or raise SyncStateError, which is
\* logged; then config.bypass_date_filter is read and the fetch awaited.
LoadState ==
    /\ \E t \in Slots, ok \in BOOLEAN :
        /\ tasks[t].kind = "ingest" /\ tasks[t].pc = "load"
        /\ IF tasks[t].bypass = "absent"
           THEN Handle(t, "AttributeError", FALSE, 0)
           ELSE /\ tasks' = [tasks EXCEPT ![t].pc = "fetch",
                        ![t].last_message_id =
                            IF ok THEN last_message[tasks[t].user] ELSE None]
                /\ UNCHANGED active_ingestions
    /\ UNCHANGED <<last_message, metrics, appended>>
    /\ UNCHANGED otherThanLoop

\* The provider's last answer to the list calls of one fetch: success, an
\* authentication failure, or a failure of the service.
FetchStatuses == {200, 401, 500}

\* client.get_all_emails / client.get_emails_since returns the listed messages, or
\* raises what GmailClient.get_email_list raises for the provider's last answer
\* (the HttpError as it is).  last_message_id is not passed to either.
FetchEmails ==
    /\ \E t \in Slots, status \in FetchStatuses :
        /\ tasks[t].kind = "ingest" /\ tasks[t].pc = "fetch"
        /\ LET outcome == list_outcome("GmailClient", status)
           IN  IF IsException(outcome)
               THEN Handle(t, outcome, FALSE, status)
               ELSE LoopHead(t, [tasks[t] EXCEPT !.emails = MailboxSize, !.i = 0])
    /\ UNCHANGED <<last_message, metrics, appended>>
    /\ UNCHANGED otherThanLoop

\* A chunk that goes to the cursor write without having been published.
ProcessBatch_unpublished ==
    /\ \E t \in Slots :
        /\ tasks[t].kind = "ingest" /\ tasks[t].pc = "process"
        /\ tasks' = [tasks EXCEPT ![t].pc = "save_id"]
    /\ UNCHANGED <<active_ingestions, last_message, metrics, appended>>
    /\ UNCHANGED otherThanLoop

\* process_email_batch returns (the chunk is normalized and published), or raises:
\* an HttpError from normalize_messages, an ExternalServiceError from publish_batch.
ProcessBatch ==
    /\ \E t \in Slots, inner \in {"none", "HttpError", "ExternalServiceError"} :
        /\ tasks[t].kind = "ingest" /\ tasks[t].pc = "process"
        /\ IF inner = "none"
           THEN /\ tasks' = [tasks EXCEPT ![t].pc = "save_id",
                        ![t].published = @ \cup ((tasks[t].i + 1)..ChunkEnd(tasks[t]))]
                /\ UNCHANGED active_ingestions
           ELSE Handle(t, process_email_batch_raises(inner), TRUE, 0)
    /\ UNCHANGED <<last_message, metrics, appended>>
    /\ UNCHANGED otherThanLoop

\* A cursor write whose SyncStateError leaves the chunk loop for the handlers.
SaveLastMessage_aborting ==
    /\ \E t \in Slots :
        /\ tasks[t].kind = "ingest" /\ tasks[t].pc = "save_id"
        /\ Handle(t, "SyncStateError", FALSE, 0)
    /\ UNCHANGED <<last_message, metrics, appended>>
    /\ UNCHANGED otherThanLoop

\* save_last_message_id(user_id, batch[-1]["id"]) and update_sync_metrics_in_redis
\* return ("saved"), or the first raises SyncStateError ("cursor_failed") or the
\* second does ("metrics_failed"), which is logged; then the loop goes on.  Between
\* the two, the sample reads active_ingestions[user_id]: with the user removed the
\* KeyError leaves the loop, after the cursor and before the metrics.  The store
\* takes MaxLoopSamples samples from the loop; for the later ones it fails.
SaveLastMessage ==
    /\ \E t \in Slots, outcome \in {"saved", "cursor_failed", "metrics_failed"} :
        LET u == tasks[t].user
            batch_len == ChunkEnd(tasks[t]) - tasks[t].i
        IN  /\ tasks[t].kind = "ingest" /\ tasks[t].pc = "save_id"
            /\ last_message' = IF outcome # "cursor_failed"
                               THEN [last_message EXCEPT ![u] = ChunkEnd(tasks[t])]
                               ELSE last_message
            /\ outcome = "saved" => Len(appended[u]) < MaxLoopSamples
            /\ IF outcome = "saved" /\ u \in DOMAIN active_ingestions
               THEN LET sample == sync_metrics(batch_len, Len(appended[u]) + 1)
                    IN  /\ metrics' = [metrics EXCEPT ![u] = update_sync_metrics(@, sample)]
                        /\ appended' = [appended EXCEPT ![u] = Append(@, sample)]
               ELSE UNCHANGED <<metrics, appended>>
            /\ LoopHead(t, [tasks[t] EXCEPT !.i = tasks[t].i + BatchSize])
    /\ UNCHANGED otherThanLoop

\* save_sync_state({... "status": "completed"}) returns or raises SyncStateError
\* (logged); next_sync is set and schedule_next_ingestion created as a task, which
\* runs up to its asyncio.sleep.
SaveFinalState ==
    /\ \E t \in Slots :
        /\ tasks[t].kind = "ingest" /\ tasks[t].pc = "save_state"
        /\ IF tasks[t].user \in DOMAIN active_ingestions
           THEN tasks' = [tasks EXCEPT ![t].kind = "sched", ![t].pc = "sleep",
                                       ![t].next_sync = tasks[t].polling_frequency_minutes]
           ELSE tasks' = [tasks EXCEPT ![t] = FreeFrame]    \* KeyError on next_sync, and in the handler
    /\ UNCHANGED <<active_ingestions, last_message, metrics, appended>>
    /\ UNCHANGED otherThanLoop

\* The handler's save_sync_state({... "status": <error status>}) returns or raises
\* (logged); ingest_emails_background ends without scheduling anything.
SaveErrorState ==
    /\ \E t \in Slots :
        /\ tasks[t].kind = "ingest" /\ tasks[t].pc = "save_error"
        /\ tasks' = [tasks EXCEPT ![t] = FreeFrame]
    /\ UNCHANGED <<active_ingestions, last_message, metrics, appended>>
    /\ UNCHANGED otherThanLoop

\* A wake-up that starts the next run without looking at active_ingestions.
WakeUp_unchecked ==
    /\ \E t \in Slots :
        /\ tasks[t].kind = "sched" /\ tasks[t].pc = "sleep"
        /\ tasks' = [tasks EXCEPT ![t] = NewIngest(tasks[t].user, tasks[t].bypass,
                                                  tasks[t].polling_frequency_minutes)]
    /\ UNCHANGED <<active_ingestions, last_message, metrics, appended>>
    /\ UNCHANGED otherThanLoop

\* A wake-up that ends the scheduler without starting a run.
WakeUp_forgetting ==
    /\ \E t \in Slots :
        /\ tasks[t].kind = "sched" /\ tasks[t].pc = "sleep"
        /\ tasks' = [tasks EXCEPT ![t] = FreeFrame]
    /\ UNCHANGED <<active_ingestions, last_message, metrics, appended>>
    /\ UNCHANGED otherThanLoop

\* schedule_next_ingestion: asyncio.sleep ends; unless the user is gone or stopped,
\* ingest_emails_background is created as a task with the same config.
WakeUp ==
    /\ \E t \in Slots :
        /\ tasks[t].kind = "sched" /\ tasks[t].pc = "sleep"
        /\ IF \/ tasks[t].user \notin DOMAIN active_ingestions
              \/ active_ingestions[tasks[t].user].status = "stopped"
           THEN tasks' = [tasks EXCEPT ![t] = FreeFrame]
           ELSE tasks' = [tasks EXCEPT ![t] = NewIngest(tasks[t].user, tasks[t].bypass,
                                                        tasks[t].polling_frequency_minutes)]
    /\ UNCHANGED <<active_ingestions, last_message, metrics, appended>>
    /\ UNCHANGED otherThanLoop

(***************************************************************************)
(* The routes with their answers: /ingest/start, /ingest/stop/{user_id}    *)
(* and /ingest/status/{user_id}, for a user with or without an entry in    *)
(* active_ingestions.                                                      *)
(***************************************************************************)
NoResponse == [route |-> "none", user |-> "none", raised |-> "none",
               body |-> [status |-> "none", emails_processed |-> 0]]

otherThanRoutes == <<bucket, limiter, clock, obs, call, store_obs, strategy, strategy_obs,
                     listing, last_message, metrics, appended, rabbit,
                     sequence,
                     workers,
                     batch,
                     redis,
                     sync_calls,
                     consumer>>

\* A start that creates a job and a task whether or not the user has an entry.
StartRoute_restarting ==
    /\ \E u \in Users, bypass \in BypassValues, freq \in PollingFrequencies :
        /\ FreeSlots # {}
        /\ active_ingestions' = [v \in DOMAIN active_ingestions \cup {u} |->
                IF v = u THEN [status |-> "starting", emails_processed |-> 0]
                ELSE active_ingestions[v]]
        /\ tasks' = [tasks EXCEPT ![FirstFree] = NewIngest(u, bypass, freq)]
        /\ response' = [route |-> "start", user |-> u, raised |-> "none",
                        body |-> active_ingestions'[u]]
    /\ UNCHANGED otherThanRoutes

\* POST /ingest/start: the existing status is returned, or the status is created,
\* the background task added and the new status returned.
StartRoute ==
    /\ \E u \in Users, bypass \in BypassValues, freq \in PollingFrequencies :
        /\ IF u \in DOMAIN active_ingestions
           THEN UNCHANGED <<active_ingestions, tasks>>
           ELSE /\ FreeSlots # {}
                /\ active_ingestions' = [v \in DOMAIN active_ingestions \cup {u} |->
                        IF v = u THEN [status |-> "starting", emails_processed |-> 0]
                        ELSE active_ingestions[v]]
                /\ tasks' = [tasks EXCEPT ![FirstFree] = NewIngest(u, bypass, freq)]
        /\ response' = [route |-> "start", user |-> u, raised |-> "none",
                        body |-> active_ingestions'[u]]
    /\ UNCHANGED otherThanRoutes

\* GET /ingest/status/{user_id}: the status object, or ResourceNotFoundError.
StatusRoute ==
    /\ \E u \in Users :
        response' = IF u \in DOMAIN active_ingestions
                    THEN [route |-> "status", user |-> u, raised |-> "none",
                          body |-> active_ingestions[u]]
                    ELSE [NoResponse EXCEPT !.route = "status", !.user = u,
                                            !.raised = "ResourceNotFoundError"]
    /\ UNCHANGED <<active_ingestions, tasks>>
    /\ UNCHANGED otherThanRoutes

\* POST /ingest/stop/{user_id}: ResourceNotFoundError, or status = "stopped" on the
\* object, which is popped; body is the popped object.
StopRoute ==
    /\ \E u \in Users :
        IF u \in DOMAIN active_ingestions
        THEN /\ active_ingestions' =
                    [v \in DOMAIN active_ingestions \ {u} |-> active_ingestions[v]]
             /\ response' = [route |-> "stop", user |-> u, raised |-> "none",
                             body |-> [active_ingestions[u] EXCEPT !.status = "stopped"]]
        ELSE /\ UNCHANGED active_ingestions
             /\ response' = [NoResponse EXCEPT !.route = "stop", !.user = u,
                                               !.raised = "ResourceNotFoundError"]
    /\ UNCHANGED tasks
    /\ UNCHANGED otherThanRoutes

(***************************************************************************)
(* RabbitMQClient: initialize with its retry loop, close, and publish_email *)
(* through _ensure_initialized.  One call at a time is in progress on the  *)
(* client; pc is the position of that call.                                *)
(***************************************************************************)
MaxMaxRetries == 3
MaxPublished == 2

otherThanRabbit == <<bucket, limiter, clock, obs, call, active_ingestions, tasks, last_message,
                     metrics, appended, store_obs, strategy, strategy_obs, listing, response,
                     sequence,
                     workers,
                     batch,
                     redis,
                     sync_calls,
                     consumer>>

\* __init__, with the record of the call in progress: the method called, its
\* position, its retry_count, the connect_robust calls it made, the result of the
\* last one, the error it raised, and the messages published on the exchange.
RabbitMQClient(connection_url, max_retries_) ==
    [connection_url |-> connection_url, max_retries |-> max_retries_,
     connection |-> "none", exchange |-> "none", initialized |-> FALSE,
     method |-> "none", pc |-> "idle", retry_count |-> 0, attempts |-> 0,
     last |-> "none", raised |-> "none", published |-> 0]

\* The end of initialize for its caller: publish_email goes on to the check of
\* _ensure_initialized and to the publish, or raises what initialize raised.
AfterInitialize(r, raised) ==
    IF raised # "none" THEN [r EXCEPT !.pc = "idle", !.raised = raised]
    ELSE IF r.method = "initialize" THEN [r EXCEPT !.pc = "idle"]
    ELSE IF ~r.initialized \/ r.exchange = "none"
         THEN [r EXCEPT !.pc = "idle", !.raised = "ConfigurationError"]
    ELSE [r EXCEPT !.pc = "publish"]

\* The head of initialize: the early return, the url check, and the first test of
\* the while condition.
InitializeHead(r) ==
    IF r.initialized THEN AfterInitialize(r, "none")
    ELSE IF r.connection_url = "" THEN AfterInitialize(r, "ConfigurationError")
    ELSE IF 0 < r.max_retries THEN [r EXCEPT !.pc = "connect"]
    ELSE AfterInitialize(r, "none")

\* One pass of the while loop that gives up one failure late.
Attempt_one_more(r, result) ==
    LET a == [r EXCEPT !.attempts = @ + 1, !.last = result]
    IN  IF result = "ok"
        THEN AfterInitialize([a EXCEPT !.connection = "open", !.exchange = "declared",
                                       !.initialized = TRUE], "none")
        ELSE IF result = "AMQPConnectionError"
        THEN IF r.retry_count + 1 > r.max_retries
             THEN AfterInitialize([a EXCEPT !.retry_count = @ + 1], "ConfigurationError")
             ELSE [a EXCEPT !.retry_count = @ + 1]
        ELSE AfterInitialize(a, "ConfigurationError")

\* One pass of the while loop: connect_robust, channel, exchange and queue all
\* succeed, or one of them raises AMQPConnectionError, or another exception.
Attempt(r, result) ==
    LET a == [r EXCEPT !.attempts = @ + 1, !.last = result]
    IN  IF result = "ok"
        THEN AfterInitialize([a EXCEPT !.connection = "open", !.exchange = "declared",
                                       !.initialized = TRUE], "none")
        ELSE IF result = "AMQPConnectionError"
        THEN IF r.retry_count + 1 >= r.max_retries
             THEN AfterInitialize([a EXCEPT !.retry_count = @ + 1], "ConfigurationError")
             ELSE [a EXCEPT !.retry_count = @ + 1]
        ELSE AfterInitialize(a, "ConfigurationError")

AttemptResults == {"ok", "AMQPConnectionError", "Exception"}

NewCall(r, method) ==
    [r EXCEPT !.method = method, !.retry_count = 0, !.attempts = 0, !.last = "none",
              !.raised = "none"]

NewRabbitMQClient ==
    /\ rabbit.pc = "idle"
    /\ \E connection_url \in {"", "amqp"}, max_retries_ \in 0..MaxMaxRetries :
        rabbit' = RabbitMQClient(connection_url, max_retries_)
    /\ UNCHANGED otherThanRabbit

Initialize ==
    /\ rabbit.pc = "idle"
    /\ rabbit' = InitializeHead(NewCall(rabbit, "initialize"))
    /\ UNCHANGED otherThanRabbit

Connect ==
    /\ rabbit.pc = "connect"
    /\ \E result \in AttemptResults : rabbit' = Attempt(rabbit, result)
    /\ UNCHANGED otherThanRabbit

Close ==
    /\ rabbit.pc = "idle"
    /\ rabbit.connection = "open"
    /\ \E ok \in BOOLEAN :
        rabbit' = IF ok THEN [NewCall(rabbit, "close") EXCEPT !.connection = "closed",
                                                              !.initialized = FALSE]
                  ELSE NewCall(rabbit, "close")
    /\ UNCHANGED otherThanRabbit

PublishEmail ==
    /\ rabbit.pc = "idle"
    /\ rabbit.published < MaxPublished
    /\ rabbit' = InitializeHead(NewCall(rabbit, "publish_email"))
    /\ UNCHANGED otherThanRabbit

ExchangePublish ==
    /\ rabbit.pc = "publish"
    /\ \E ok \in BOOLEAN :
        rabbit' = IF ok THEN [rabbit EXCEPT !.pc = "idle", !.published = @ + 1]
                  ELSE [rabbit EXCEPT !.pc = "idle", !.raised = "ExternalServiceError"]
    /\ UNCHANGED otherThanRabbit

(***************************************************************************)
(* GmailApiClient.get_emails_batch: an async generator function under the  *)
(* decorator async_retry_on_rate_limit.  The attribute of the class is the *)
(* decorator's wrapper, a coroutine function that awaits func(...); the    *)
(* generator function itself is its __wrapped__.  The body gathers one     *)
(* get_email_details per id, without return_exceptions, and yields the     *)
(* results after the gather.                                               *)
(***************************************************************************)
MaxIds == 3             \* message_ids holds 0..MaxIds ids

DetailStatuses == {200, 404, 500}

NoBatch == [pc |-> "idle", entry |-> "none", use |-> "none", ids |-> 0,
            results |-> <<>>, yielded |-> <<>>, raised |-> "none"]

otherThanBatch == <<bucket, limiter, clock, obs, call, active_ingestions, tasks, last_message,
                    metrics, appended, store_obs, strategy, strategy_obs, listing, response,
                    rabbit, sequence, workers,
                    redis,
                    sync_calls,
                    consumer>>

\* The caller calls get_emails_batch (entry "wrapper") or the undecorated
\* generator function (entry "__wrapped__") and iterates the result with async for
\* or awaits it.  The wrapper returns a coroutine, which async for rejects; awaited,
\* it awaits the async generator object, which await rejects, as it does when the
\* caller awaits the generator.  Only async for over the generator runs the body,
\* up to the gather.
BeginBatch ==
    /\ batch.pc \in {"idle", "done"}
    /\ \E n \in 0..MaxIds, entry \in {"wrapper", "__wrapped__"}, use \in {"async for", "await"} :
        LET b == [NoBatch EXCEPT !.entry = entry, !.use = use, !.ids = n,
                                 !.results = [i \in 1..n |-> "pending"]]
        IN  batch' = IF entry = "wrapper" \/ use = "await"
                     THEN [b EXCEPT !.pc = "done", !.raised = "TypeError"]
                     ELSE IF n = 0 THEN [b EXCEPT !.pc = "done"]
                     ELSE [b EXCEPT !.pc = "gather"]
    /\ UNCHANGED otherThanBatch

\* One get_email_details of the gather ends.  The first exception leaves the
\* gather and the generator; when the last one has returned, the results are
\* ready to be yielded.  The fetches still running when the gather raised are not
\* cancelled: they end later, with nobody to take their results.
DetailDone ==
    /\ batch.pc \in {"gather", "done"}
    /\ \E i \in 1..batch.ids, status \in DetailStatuses :
        /\ batch.results[i] = "pending"
        /\ batch.entry = "__wrapped__" /\ batch.use = "async for"
        /\ LET outcome == details_outcome("GmailApiClient", status)
               results == [batch.results EXCEPT ![i] = outcome]
           IN  batch' = IF batch.pc = "done"
                        THEN [batch EXCEPT !.results = results]
                        ELSE IF IsException(outcome)
                        THEN [batch EXCEPT !.results = results, !.pc = "done",
                                           !.raised = outcome]
                        ELSE IF \A j \in 1..batch.ids : results[j] # "pending"
                        THEN [batch EXCEPT !.results = results, !.pc = "yield"]
                        ELSE [batch EXCEPT !.results = results]
    /\ UNCHANGED otherThanBatch

\* for result in results: yield result
YieldResult ==
    /\ batch.pc = "yield"
    /\ LET yielded == Append(batch.yielded, Len(batch.yielded) + 1)
       IN  batch' = [batch EXCEPT !.yielded = yielded,
                        !.pc = IF Len(yielded) = batch.ids THEN "done" ELSE "yield"]
    /\ UNCHANGED otherThanBatch

(***************************************************************************)
(* SyncStateManager called on its own: samples recorded by a caller and    *)
(* the polling interval asked for, each with the fault the store meets.    *)
(***************************************************************************)
\* email_count of the samples a caller records: low and high volume.
EmailCounts == {5, 50}

NoStoreObs == [op |-> "none", user |-> "none", fault |-> "none", raised |-> "none",
               arg |-> [kind |-> "None", value |-> <<>>], result |-> 0]

otherThanStore == <<bucket, limiter, clock, obs, call, active_ingestions, tasks,
                    last_message, components>>

\* update_sync_metrics_in_redis(user_id, {"email_count": c}): the sample gets its
\* timestamp and the capped list is stored, unless the store fails.  The call runs
\* from its GET to its SET with no other call on the key in between: the calls
\* follow one another.
RecordMetrics ==
    /\ \E u \in Users, c \in EmailCounts, fault \in StoreFaults :
        LET raised == redis_operation("update_sync_metrics_in_redis", fault)
            sample == [email_count |-> c, batch_size |-> None,
                       timestamp |-> Len(appended[u]) + 1]
        IN  /\ Len(appended[u]) < MaxAppends
            /\ fault = "JSONDecodeError" => metrics[u] # <<>>
            /\ store_obs' = [NoStoreObs EXCEPT !.op = "update_sync_metrics_in_redis",
                                !.user = u, !.fault = fault, !.raised = raised]
            /\ IF raised = "none"
               THEN /\ metrics' = [metrics EXCEPT ![u] = update_sync_metrics(@, sample)]
                    /\ appended' = [appended EXCEPT ![u] = Append(@, sample)]
               ELSE UNCHANGED <<metrics, appended>>
    /\ UNCHANGED otherThanStore

\* calculate_optimal_polling_interval_minutes(user_id, ...): get_sync_metrics, then
\* the strategy on latest_metrics; the default on any exception.
CalculateInterval ==
    /\ \E u \in Users, fault \in StoreFaults :
        /\ fault = "JSONDecodeError" => metrics[u] # <<>>
        /\ store_obs' = [op |-> "calculate_optimal_polling_interval_minutes",
                         user |-> u, fault |-> fault,
                         raised |-> redis_operation("get_sync_metrics", fault),
                         arg |-> IF redis_operation("get_sync_metrics", fault) = "none"
                                 THEN latest_metrics(metrics[u])
                                 ELSE [kind |-> "None", value |-> <<>>],
                         result |-> calculate_optimal_polling_interval_minutes(
                                        metrics[u], fault)]
    /\ UNCHANGED <<metrics, appended>>
    /\ UNCHANGED otherThanStore

(***************************************************************************)
(* SyncStateManager over one Redis keyspace used for several users: the    *)
(* cursor (last_message), the status and the metrics of each user live     *)
(* under keys built from the user id.                                      *)
(***************************************************************************)
\* User ids.  One of them holds a colon and a key type, as a key does.
StoreUsers == {"u1", "u1:status"}

MaxMessageId == 2       \* message ids are 1..MaxMessageId
MaxStored == 1          \* update calls that return True, per user

MessageIds == 1..MaxMessageId

SyncStatuses == {"running", "completed"}

key_prefix == "email_sync:"     \* SyncStateManager.__init__

\* A key that leaves the user id out.
get_user_key_shared(user_id, key_type) == key_prefix \o key_type

\* _get_user_key
get_user_key(user_id, key_type) == key_prefix \o user_id \o ":" \o key_type

\* json.dumps of a dict: the text holds the items, name then value, in the
\* order of names.
json_dumps(d, names) == [i \in DOMAIN names |-> <<names[i], d[names[i]]>>]

\* json.loads(text).get(name)
json_get(text, name) ==
    IF \E i \in DOMAIN text : text[i][1] = name
    THEN text[CHOOSE i \in DOMAIN text : text[i][1] = name][2]
    ELSE None

\* json.loads of a dict's text.
json_loads(text) == [name \in {text[i][1] : i \in DOMAIN text} |-> json_get(text, name)]

\* redis_client.set(key, value)
redis_set(r, key, value) ==
    [k \in DOMAIN r \cup {key} |-> IF k = key THEN value ELSE r[k]]

\* get_last_message_id's operation: data.get("message_id") of the stored text,
\* None when the key holds nothing.
get_last_message_id(r, user_id) ==
    LET key == get_user_key(user_id, "last_message")
    IN  IF key \in DOMAIN r THEN json_get(r[key], "message_id") ELSE None

\* get_sync_status's operation, as the statuses it finds: the "status" of the
\* stored dict, none when the key holds nothing.
get_sync_status(r, user_id) ==
    LET key == get_user_key(user_id, "status")
    IN  IF key \in DOMAIN r THEN <<json_loads(r[key]).status>> ELSE <<>>

\* get_sync_metrics's operation: the stored list, [] when the key holds nothing.
get_sync_metrics(r, user_id) ==
    LET key == get_user_key(user_id, "metrics")
    IN  IF key \in DOMAIN r THEN [i \in DOMAIN r[key] |-> json_loads(r[key][i])] ELSE <<>>

NoSyncCall == [op |-> "none", user |-> "none", raised |-> "none", result |-> None]

\* accepted[u]: the message id and the status of the last save call for u that
\* returned True, and the samples of the update calls for u that returned True.
NoSyncCalls ==
    [last |-> NoSyncCall,
     accepted |-> [u \in StoreUsers |-> [last_message |-> None, status |-> <<>>,
                                         metrics |-> <<>>]]]

otherThanKeyspace == <<bucket, limiter, clock, obs, call, active_ingestions, tasks, last_message,
                       metrics, appended, store_obs, strategy, strategy_obs, listing, response,
                       rabbit, sequence, workers, batch,
                       consumer>>

\* save_last_message_id(user_id, message_id)
SaveLastMessageId ==
    /\ \E u \in StoreUsers, message_id \in MessageIds, fault \in StoreFaults :
        LET raised == redis_operation("save_last_message_id", fault)
            data == [message_id |-> message_id, timestamp |-> clock]
        IN  /\ redis' = IF raised = "none"
                        THEN redis_set(redis, get_user_key(u, "last_message"),
                                       json_dumps(data, <<"message_id", "timestamp">>))
                        ELSE redis
            /\ sync_calls' =
                [last |-> [op |-> "save_last_message_id", user |-> u, raised |-> raised,
                           result |-> None],
                 accepted |-> IF raised = "none"
                              THEN [sync_calls.accepted EXCEPT ![u].last_message = message_id]
                              ELSE sync_calls.accepted]
    /\ UNCHANGED otherThanKeyspace

\* get_last_message_id(user_id)
GetLastMessageId ==
    /\ \E u \in StoreUsers, fault \in StoreFaults :
        LET raised == redis_operation("get_last_message_id", fault)
        IN  /\ fault = "JSONDecodeError" => get_user_key(u, "last_message") \in DOMAIN redis
            /\ sync_calls' =
                [sync_calls EXCEPT !.last =
                    [op |-> "get_last_message_id", user |-> u, raised |-> raised,
                     result |-> IF raised = "none" THEN get_last_message_id(redis, u)
                                ELSE None]]
    /\ UNCHANGED redis
    /\ UNCHANGED otherThanKeyspace

\* set_sync_status_in_redis(user_id, status)
SetSyncStatus ==
    /\ \E u \in StoreUsers, status \in SyncStatuses, fault \in StoreFaults :
        LET raised == redis_operation("set_sync_status_in_redis", fault)
            status_data == [status |-> status, timestamp |-> clock]
        IN  /\ redis' = IF raised = "none"
                        THEN redis_set(redis, get_user_key(u, "status"),
                                       json_dumps(status_data, <<"status", "timestamp">>))
                        ELSE redis
            /\ sync_calls' =
                [last |-> [op |-> "set_sync_status_in_redis", user |-> u, raised |-> raised,
                           result |-> None],
                 accepted |-> IF raised = "none"
                              THEN [sync_calls.accepted EXCEPT ![u].status = <<status>>]
                              ELSE sync_calls.accepted]
    /\ UNCHANGED otherThanKeyspace

\* update_sync_metrics_in_redis(user_id, {"email_count": c}): the stored list is
\* read, the sample appended, the capped list stored.
UpdateSyncMetrics ==
    /\ \E u \in StoreUsers, fault \in StoreFaults :
        LET raised == redis_operation("update_sync_metrics_in_redis", fault)
            key == get_user_key(u, "metrics")
            sample == [email_count |-> 5, timestamp |-> clock]
            metrics_list == update_sync_metrics(get_sync_metrics(redis, u), sample)
        IN  /\ Len(sync_calls.accepted[u].metrics) < MaxStored
            /\ fault = "JSONDecodeError" => key \in DOMAIN redis
            /\ redis' = IF raised = "none"
                        THEN redis_set(redis, key,
                                [i \in DOMAIN metrics_list |->
                                    json_dumps(metrics_list[i], <<"email_count", "timestamp">>)])
                        ELSE redis
            /\ sync_calls' =
                [last |-> [op |-> "update_sync_metrics_in_redis", user |-> u,
                           raised |-> raised, result |-> None],
                 accepted |-> IF raised = "none"
                              THEN [sync_calls.accepted EXCEPT ![u].metrics =
                                        update_sync_metrics(@, sample)]
                              ELSE sync_calls.accepted]
    /\ UNCHANGED otherThanKeyspace

(***************************************************************************)
(* The classification service's RabbitMQConsumer: each delivered message   *)
(* is handled by _on_message inside `async with message.process()`.  A     *)
(* handler stops at its awaits (the classifier, the publisher), so the     *)
(* handlers of several messages interleave there.                          *)
(***************************************************************************)
MaxDeliveries == 2      \* messages delivered to one consumer object

\* message.body: bytes that do not decode, text that is not JSON, JSON that is
\* not an EmailMessage, and an EmailMessage.
Bodies == {"not_utf8", "not_json", "not_email", "email"}

\* RabbitMQConsumer.__init__: whether a classifier_callback and a publisher are
\* given.
RabbitMQConsumer(classifier_callback, publisher) ==
    [classifier_callback |-> classifier_callback, publisher |-> publisher,
     deliveries |-> <<>>]

\* message.process() with its defaults (requeue=False), on leaving the block with
\* exception exc: ack when there is none, reject(requeue=False) otherwise.
process_exit(d, exc) ==
    IF exc = "none"
    THEN [d EXCEPT !.pc = "done", !.acks = @ + 1]
    ELSE [d EXCEPT !.pc = "done", !.rejects = @ + 1, !.raised = exc]

\* An outer handler that logs a ValidationError and lets anything else go on.
outer_except_reraising(d, exc) ==
    IF exc = "none" THEN process_exit(d, "none")
    ELSE IF exc = "ValidationError"
    THEN process_exit([d EXCEPT !.logs = @ \cup {"Validation error processing message"}], "none")
    ELSE process_exit(d, exc)

\* The outer try of _on_message left with exc: `except ValidationError` and
\* `except Exception` both log and fall through to the end of the block.
outer_except(d, exc) ==
    IF exc = "none" THEN process_exit(d, "none")
    ELSE IF exc = "ValidationError"
    THEN process_exit([d EXCEPT !.logs = @ \cup {"Validation error processing message"}], "none")
    ELSE process_exit([d EXCEPT !.logs = @ \cup {"Unexpected error processing message"}], "none")

\* The handler of the classifier block: `except Exception` logs and does not
\* raise again.
classifier_except(d) ==
    outer_except([d EXCEPT !.logs = @ \cup {"Error during classification"}], "none")

\* _on_message from its entry to its first await or its end.
on_message(c, body) ==
    LET d == [body |-> body, pc |-> "process", failure |-> "none", logs |-> {},
              acks |-> 0, rejects |-> 0, requeues |-> 0, published |-> FALSE,
              raised |-> "none"]
    IN  IF body = "not_utf8"
        THEN outer_except([d EXCEPT !.failure = "decode"], "UnicodeDecodeError")
        ELSE IF body = "not_json"
        THEN outer_except([d EXCEPT !.failure = "json",
                              !.logs = {"Failed to decode message as JSON"}],
                          "ValidationError")
        ELSE IF body = "not_email"
        THEN outer_except([d EXCEPT !.failure = "structure",
                              !.logs = {"Failed to validate email structure"}],
                          "ValidationError")
        ELSE IF c.classifier_callback
        THEN [d EXCEPT !.pc = "classifier_callback"]
        ELSE outer_except([d EXCEPT !.logs = {"No classifier callback set"}], "none")

otherThanConsumer == <<bucket, limiter, clock, obs, call, active_ingestions, tasks, last_message,
                       metrics, appended, store_obs, strategy, strategy_obs, listing, response,
                       rabbit, sequence, workers, batch, redis, sync_calls>>

\* A consumer is constructed; no handler of the one before is still running.
NewRabbitMQConsumer ==
    /\ \A i \in DOMAIN consumer.deliveries : consumer.deliveries[i].pc = "done"
    /\ \E classifier_callback \in BOOLEAN, publisher \in BOOLEAN :
        consumer' = RabbitMQConsumer(classifier_callback, publisher)
    /\ UNCHANGED otherThanConsumer

\* The queue delivers a message: _on_message runs to its first await or its end.
OnMessage ==
    /\ Len(consumer.deliveries) < MaxDeliveries
    /\ \E body \in Bodies :
        consumer' = [consumer EXCEPT !.deliveries = Append(@, on_message(consumer, body))]
    /\ UNCHANGED otherThanConsumer

\* `await self.classifier_callback(email)` ends: with a result, with a result the
\* log line cannot format, or with an exception.
ClassifierCallback ==
    /\ \E i \in DOMAIN consumer.deliveries, outcome \in {"result", "unformattable", "raise"} :
        LET d == consumer.deliveries[i]
        IN  /\ d.pc = "classifier_callback"
            /\ consumer' = [consumer EXCEPT !.deliveries[i] =
                    IF outcome # "result"
                    THEN classifier_except([d EXCEPT !.failure = "classifier"])
                    ELSE IF consumer.publisher
                    THEN [d EXCEPT !.pc = "publish_result"]
                    ELSE outer_except(d, "none")]
    /\ UNCHANGED otherThanConsumer

\* `await self.publisher.publish_result(result)` ends: published, or with an
\* exception, which is logged; the debug line of that handler may itself raise,
\* into the handler of the classifier block.
PublishResult ==
    /\ \E i \in DOMAIN consumer.deliveries, outcome \in {"published", "raise", "raise_twice"} :
        LET d == consumer.deliveries[i]
            failed == [d EXCEPT !.failure = "publish",
                          !.logs = @ \cup {"Failed to publish classification result"}]
        IN  /\ d.pc = "publish_result"
            /\ consumer' = [consumer EXCEPT !.deliveries[i] =
                    IF outcome = "published"
                    THEN outer_except([d EXCEPT !.published = TRUE], "none")
                    ELSE IF outcome = "raise"
                    THEN outer_except(failed, "none")
                    ELSE classifier_except(failed)]
    /\ UNCHANGED otherThanConsumer

(***************************************************************************)
(* The polling strategies on their own: an object is constructed, then     *)
(* asked for an interval.  datetime.now().hour is an input of the call.    *)
(***************************************************************************)
BUSINESS_HOURS_START == 9
BUSINESS_HOURS_END == 17
EVENING_HOURS_END == 23
BUSINESS_HOURS_INTERVAL == 3
EVENING_HOURS_INTERVAL == 10
NIGHT_HOURS_INTERVAL == 20

\* TimeBasedPollingStrategy.__init__
TimeBasedPollingStrategy(args) ==
    [business_hours_start |-> Or(args.business_hours_start, BUSINESS_HOURS_START),
     business_hours_end |-> Or(args.business_hours_end, BUSINESS_HOURS_END),
     evening_hours_end |-> Or(args.evening_hours_end, EVENING_HOURS_END),
     business_hours_interval |-> Or(args.business_hours_interval, BUSINESS_HOURS_INTERVAL),
     evening_hours_interval |-> Or(args.evening_hours_interval, EVENING_HOURS_INTERVAL),
     night_hours_interval |-> Or(args.night_hours_interval, NIGHT_HOURS_INTERVAL)]

NoTimeArgs ==
    [business_hours_start |-> None, business_hours_end |-> None,
     evening_hours_end |-> None, business_hours_interval |-> None,
     evening_hours_interval |-> None, night_hours_interval |-> None]

\* TimeBasedPollingStrategy.calculate_polling_interval_minutes at current_hour.
time_strategy_interval(self, current_hour) ==
    IF self.business_hours_start <= current_hour /\ current_hour < self.business_hours_end
    THEN self.business_hours_interval
    ELSE IF self.business_hours_end <= current_hour /\ current_hour <= self.evening_hours_end
    THEN self.evening_hours_interval
    ELSE self.night_hours_interval

NoStrategy ==
    [kind |-> "none", args |-> NoVolumeArgs,
     volume_strategy |-> VolumeBasedPollingStrategy(NoVolumeArgs),
     time_strategy |-> TimeBasedPollingStrategy(NoTimeArgs),
     business_hours_preference |-> "none", off_hours_preference |-> "none"]

valid_preferences == {"shorter", "longer"}

\* A constructor that takes the preferences as they are given.
HybridPollingStrategy_unvalidated(volume_args, time_args, business_hours_preference, off_hours_preference) ==
    [raised |-> "none",
     self |-> [kind |-> "hybrid", args |-> volume_args,
               volume_strategy |-> VolumeBasedPollingStrategy(volume_args),
               time_strategy |-> TimeBasedPollingStrategy(time_args),
               business_hours_preference |-> business_hours_preference,
               off_hours_preference |-> off_hours_preference]]

\* HybridPollingStrategy.__init__ with a volume and a time strategy built from
\* volume_args and time_args: the exception raised, or the object.
HybridPollingStrategy(volume_args, time_args, business_hours_preference, off_hours_preference) ==
    IF \/ business_hours_preference \notin valid_preferences
       \/ off_hours_preference \notin valid_preferences
    THEN [raised |-> "ValueError", self |-> NoStrategy]
    ELSE [raised |-> "none",
          self |-> [kind |-> "hybrid", args |-> volume_args,
                    volume_strategy |-> VolumeBasedPollingStrategy(volume_args),
                    time_strategy |-> TimeBasedPollingStrategy(time_args),
                    business_hours_preference |-> business_hours_preference,
                    off_hours_preference |-> off_hours_preference]]

\* A choice that takes the shorter interval whatever the preference.
hybrid_interval_shorter(self, volume_interval_, time_interval, current_hour) ==
    Min(volume_interval_, time_interval)

\* HybridPollingStrategy.calculate_polling_interval_minutes from the two strategies'
\* intervals, at current_hour.
hybrid_interval(self, volume_interval_, time_interval, current_hour) ==
    LET is_business_hours ==
            /\ self.time_strategy.business_hours_start <= current_hour
            /\ current_hour < self.time_strategy.business_hours_end
        preference == IF is_business_hours THEN self.business_hours_preference
                      ELSE self.off_hours_preference
    IN  IF preference = "shorter"
        THEN Min(volume_interval_, time_interval)
        ELSE Max(volume_interval_, time_interval)

\* The arguments the strategies are constructed with.
VolumeArgs ==
    {[NoVolumeArgs EXCEPT !.high_volume_threshold = high, !.medium_volume_threshold = medium,
                          !.high_volume_interval = intervals[1],
                          !.medium_volume_interval = intervals[2],
                          !.low_volume_interval = intervals[3]] :
        high \in {None, 0, 20}, medium \in {None, 0, 5},
        intervals \in {<<None, None, None>>, <<1, 3, 30>>}}

HybridVolumeArgs == {NoVolumeArgs, [NoVolumeArgs EXCEPT !.low_volume_interval = 30]}

TimeArgs ==
    {[NoTimeArgs EXCEPT !.business_hours_start = s, !.business_hours_end = e] :
        s \in {None, 8}, e \in {None, 18}}

Preferences == {"shorter", "longer", "always"}

Hours == 0..23

\* The samples of a metrics list: with an email_count, or without one.
SampleCounts == {None, 5, 10, 49, 50}

MetricsLists ==
    UNION {[1..n -> {[email_count |-> c, batch_size |-> None, timestamp |-> 0] :
                        c \in SampleCounts}] : n \in 0..MaxSamples}

\* The lists a hybrid strategy is asked about: no sample, or one of low or of high volume.
HybridMetricsLists ==
    {m \in MetricsLists : Len(m) <= 1 /\ \A k \in 1..Len(m) : m[k].email_count \in {5, 50}}

NoStrategyObs ==
    [op |-> "none", raised |-> "none", metrics |-> <<>>, current_hour |-> 0,
     volume_interval |-> 0, time_interval |-> 0, result |-> 0]

otherThanStrategy == <<bucket, limiter, clock, obs, call, active_ingestions, tasks,
                       last_message, metrics, appended, store_obs, listing, response,
                       rabbit,
                       sequence,
                       workers,
                       batch,
                       redis,
                       sync_calls,
                       consumer>>

\* VolumeBasedPollingStrategy(...) is constructed.
NewVolumeStrategy ==
    /\ \E args \in VolumeArgs :
        strategy' = [NoStrategy EXCEPT !.kind = "volume", !.args = args,
                                       !.volume_strategy = VolumeBasedPollingStrategy(args)]
    /\ strategy_obs' = [NoStrategyObs EXCEPT !.op = "VolumeBasedPollingStrategy"]
    /\ UNCHANGED otherThanStrategy

\* HybridPollingStrategy(...) is constructed, or raises ValueError and no object exists.
NewHybridStrategy ==
    /\ \E volume_args \in HybridVolumeArgs, time_args \in TimeArgs,
          business_hours_preference \in Preferences, off_hours_preference \in Preferences :
        LET r == HybridPollingStrategy(volume_args, time_args, business_hours_preference,
                                       off_hours_preference)
        IN  /\ strategy' = IF r.raised = "none" THEN r.self ELSE strategy
            /\ strategy_obs' = [NoStrategyObs EXCEPT !.op = "HybridPollingStrategy",
                                                      !.raised = r.raised]
    /\ UNCHANGED otherThanStrategy

\* await strategy.calculate_polling_interval_minutes(metrics) on a volume strategy.
VolumeCalculate ==
    /\ strategy.kind = "volume"
    /\ \E metrics_list \in MetricsLists :
        strategy_obs' = [NoStrategyObs EXCEPT
            !.op = "calculate_polling_interval_minutes", !.metrics = metrics_list,
            !.result = volume_strategy_interval(strategy.volume_strategy, metrics_list)]
    /\ UNCHANGED strategy
    /\ UNCHANGED otherThanStrategy

\* The same on a hybrid strategy: the time strategy reads the clock at hour, the
\* hybrid strategy after it, in the same hour or when the next has begun.
HybridCalculate ==
    /\ strategy.kind = "hybrid"
    /\ \E metrics_list \in HybridMetricsLists, hour \in Hours, later \in {0, 1} :
        LET v == volume_strategy_interval(strategy.volume_strategy, metrics_list)
            t == time_strategy_interval(strategy.time_strategy, hour)
            current_hour == (hour + later) % 24
        IN  strategy_obs' = [NoStrategyObs EXCEPT
                !.op = "calculate_polling_interval_minutes", !.metrics = metrics_list,
                !.current_hour = current_hour, !.volume_interval = v, !.time_interval = t,
                !.result = hybrid_interval(strategy, v, t, current_hour)]
    /\ UNCHANGED strategy
    /\ UNCHANGED otherThanStrategy

\* The arguments a time strategy is constructed with: the defaults, or the hours
\* and the intervals of the unit test's custom strategy.
TimeStrategyArgs ==
    {[business_hours_start |-> s, business_hours_end |-> e, evening_hours_end |-> v,
      business_hours_interval |-> i[1], evening_hours_interval |-> i[2],
      night_hours_interval |-> i[3]] :
        s \in {None, 8}, e \in {None, 16}, v \in {None, 22},
        i \in {<<None, None, None>>, <<2, 7, 15>>}}

\* TimeBasedPollingStrategy(...) is constructed.
NewTimeStrategy ==
    /\ \E args \in TimeStrategyArgs :
        strategy' = [NoStrategy EXCEPT !.kind = "time",
                                       !.time_strategy = TimeBasedPollingStrategy(args)]
    /\ strategy_obs' = [NoStrategyObs EXCEPT !.op = "TimeBasedPollingStrategy"]
    /\ UNCHANGED otherThanStrategy

\* await strategy.calculate_polling_interval_minutes(metrics) on a time strategy,
\* with datetime.now().hour = current_hour.
TimeCalculate ==
    /\ strategy.kind = "time"
    /\ \E metrics_list \in HybridMetricsLists, current_hour \in Hours :
        strategy_obs' = [NoStrategyObs EXCEPT
            !.op = "calculate_polling_interval_minutes", !.metrics = metrics_list,
            !.current_hour = current_hour,
            !.result = time_strategy_interval(strategy.time_strategy, current_hour)]
    /\ UNCHANGED strategy
    /\ UNCHANGED otherThanStrategy

(***************************************************************************)
(* GmailClient.get_emails_since and get_all_emails on their own: a listing *)
(* pages through the provider's answers to get_email_list.  The mailbox    *)
(* does not change during a listing: a query matches the messages          *)
(* 1..total, and a page token is the number of messages already listed.    *)
(***************************************************************************)
\* The messages of one answer to messages().list(q, maxResults, pageToken).
page_messages(total, page_token, batch_size) ==
    LET offset == IF page_token = None THEN 0 ELSE page_token
    IN  [k \in 1..(Min(offset + batch_size, total) - offset) |-> offset + k]

\* Its nextPageToken: None when the answer holds the last matching message.
next_page_token(total, page_token, batch_size) ==
    LET offset == IF page_token = None THEN 0 ELSE page_token
    IN  IF offset + batch_size < total THEN offset + batch_size ELSE None

\* What a query matches: the messages in the time window, or all of them.
matching(l, query) == IF query = "newer_than" THEN l.newer ELSE l.anywhere

NoListing ==
    [method |-> "none", pc |-> "idle", query |-> "none", max_emails |-> 0,
     batch_size |-> 1, newer |-> 0, anywhere |-> 0, all_emails |-> <<>>,
     page_token |-> None, calls |-> <<>>, raised |-> "none"]

otherThanListing == <<bucket, limiter, clock, obs, call, active_ingestions, tasks,
                      last_message, metrics, appended, store_obs, strategy, strategy_obs,
                      response, rabbit,
                      sequence,
                      workers,
                      batch,
                      redis,
                      sync_calls,
                      consumer>>

\* A fallback that is entered whether or not the paging loop found anything.
AfterPages_always_fallback(l) ==
    IF l.method = "get_emails_since" /\ Len(l.all_emails) < l.max_emails
    THEN [l EXCEPT !.pc = "fallback", !.query = "in:anywhere", !.page_token = None]
    ELSE [l EXCEPT !.pc = "returned"]

\* The record of a list call: the loop it was made in, its query and page token.
ListCall(l) == [phase |-> l.pc, query |-> l.query, page_token |-> l.page_token]

\* After the paging loop with locals l: get_all_emails returns; get_emails_since
\* returns what it has, or with nothing found enters the fallback loop, whose
\* condition is len(all_emails) < max_emails, and awaits its first list call.
AfterPages(l) ==
    IF l.method = "get_emails_since" /\ l.all_emails = <<>> /\ 0 < l.max_emails
    THEN [l EXCEPT !.pc = "fallback", !.query = "in:anywhere", !.page_token = None]
    ELSE [l EXCEPT !.pc = "returned"]

\* The head of the paging loop: the break at max_emails, or the await of the list call.
PagingHead(l) ==
    IF Len(l.all_emails) >= l.max_emails THEN AfterPages(l) ELSE [l EXCEPT !.pc = "paging"]

\* get_emails_since(since_date, max_emails) or get_all_emails(max_emails) is called
\* on a client with the page size batch_size, up to its first list call.
BeginListing ==
    /\ listing.pc \in {"idle", "returned"}
    /\ \E method \in {"get_emails_since", "get_all_emails"},
          days_ago \in {0, 1}, max_emails \in 0..MaxMaxEmails,
          batch_size \in 1..MaxPageSize, anywhere \in 0..MaxMatching :
        \E newer \in 0..anywhere :
            listing' = PagingHead([NoListing EXCEPT
                !.method = method,
                !.query = IF method = "get_all_emails" THEN ""
                          ELSE IF days_ago > 0 THEN "newer_than" ELSE "in:anywhere",
                !.max_emails = max_emails, !.batch_size = batch_size,
                !.newer = newer, !.anywhere = anywhere])
    /\ UNCHANGED otherThanListing

\* get_email_list returns a page in the paging loop, or raises: the page is added,
\* and the loop ends without a token or when another page could pass max_emails.
ListPage ==
    /\ listing.pc = "paging"
    /\ \E ok \in BOOLEAN :
        LET total == matching(listing, listing.query)
            emails == page_messages(total, listing.page_token, listing.batch_size)
            token == next_page_token(total, listing.page_token, listing.batch_size)
            l == [listing EXCEPT !.all_emails = @ \o emails, !.page_token = token,
                                 !.calls = Append(@, ListCall(listing))]
        IN  listing' =
                IF ~ok THEN [listing EXCEPT !.pc = "returned", !.raised = "HttpError",
                                            !.all_emails = <<>>,
                                            !.calls = Append(@, ListCall(listing))]
                ELSE IF token = None THEN AfterPages(l)
                ELSE IF Len(l.all_emails) + l.batch_size > l.max_emails THEN AfterPages(l)
                ELSE PagingHead(l)
    /\ UNCHANGED otherThanListing

\* get_email_list returns a page in the fallback loop, or raises.
ListFallbackPage ==
    /\ listing.pc = "fallback"
    /\ \E ok \in BOOLEAN :
        LET total == matching(listing, listing.query)
            emails == page_messages(total, listing.page_token, listing.batch_size)
            token == next_page_token(total, listing.page_token, listing.batch_size)
            l == [listing EXCEPT !.all_emails = @ \o emails, !.page_token = token,
                                 !.calls = Append(@, ListCall(listing))]
        IN  listing' =
                IF ~ok THEN [listing EXCEPT !.pc = "returned", !.raised = "HttpError",
                                            !.all_emails = <<>>,
                                            !.calls = Append(@, ListCall(listing))]
                ELSE IF token = None \/ Len(l.all_emails) + l.batch_size > l.max_emails
                THEN [l EXCEPT !.pc = "returned"]
                ELSE IF Len(l.all_emails) < l.max_emails THEN l
                ELSE [l EXCEPT !.pc = "returned"]
    /\ UNCHANGED otherThanListing

(***************************************************************************)
(* The specifications.                                                     *)
(***************************************************************************)
InitRest ==
    /\ bucket = EmptyBucket
    /\ clock = 0
    /\ obs = NoObs
    /\ call = NoCall
    /\ active_ingestions = [u \in {} |-> 0]
    /\ tasks = [t \in Slots |-> FreeFrame]
    /\ last_message = [u \in Users |-> None]
    /\ metrics = [u \in Users |-> <<>>]
    /\ appended = [u \in Users |-> <<>>]
    /\ store_obs = NoStoreObs
    /\ strategy = NoStrategy
    /\ strategy_obs = NoStrategyObs
    /\ listing = NoListing
    /\ response = NoResponse
    /\ rabbit = RabbitMQClient("amqp", 1)
    /\ sequence = NoSequence
    /\ workers = [w \in Workers |-> IdleWorker]
    /\ batch = NoBatch
    /\ redis = [k \in {} |-> <<>>]
    /\ sync_calls = NoSyncCalls
    /\ consumer = RabbitMQConsumer(FALSE, FALSE)

\* Any limiter configuration within the bounds.
InitBucket == InitRest /\ limiter \in Limiters

\* The limiter main.py constructs has refill_rate = max_tokens and refill_time = 1.
MainLimiters == {l \in Limiters : l.refill_rate = l.max_tokens /\ l.refill_time = 1}

InitFetch == InitRest /\ limiter \in MainLimiters

InitLoop == InitRest /\ limiter = [max_tokens |-> 1, refill_rate |-> 1, refill_time |-> 1]

NextBucket == Acquire \/ Refill \/ Reset \/ Tick

NextFetch == BeginCall \/ CallAcquire \/ CallExecute \/ CallSleep \/ EndCall \/ Tick

NextLoop == \/ Start \/ Stop \/ RunBegin \/ LoadState \/ FetchEmails \/ ProcessBatch
            \/ SaveLastMessage \/ SaveFinalState \/ SaveErrorState \/ WakeUp

SpecBucket == InitBucket /\ [][NextBucket]_vars

\* Sequences of acquire calls on a bucket that resets, refills, ticks and earlier
\* calls have left.
ResetBetween == Reset /\ ~sequence.active

NextSequence == ResetBetween \/ Tick \/ BeginSequence \/ SequenceAcquire

SpecSequence == InitBucket /\ [][NextSequence]_vars

\* Two workers on the bucket of the limiter main.py constructs.
NextWorkers == \/ RefillGetLastRefill \/ RefillGetTokens \/ RefillSetTokens
               \/ RefillSetLastRefill \/ ResetSetTokens \/ ResetSetLastRefill
               \/ GetTokens \/ ConsumeSetTokens \/ WorkersTick

SpecWorkers == InitFetch /\ [][NextWorkers]_vars

SpecFetch == InitFetch /\ [][NextFetch]_vars

SpecLoop == InitLoop /\ [][NextLoop]_vars

\* One job: a start and no stop, so the run and its scheduled re-runs are the
\* only coroutines of the user.
NextRun == \/ Start \/ RunBegin \/ LoadState \/ FetchEmails \/ ProcessBatch
           \/ SaveLastMessage \/ SaveFinalState \/ SaveErrorState \/ WakeUp

SpecRun == InitLoop /\ [][NextRun]_vars

\* The first run of one job and the status route reading its counter: a start, no
\* stop, and no scheduled re-run waking up.
NextFirstRun == \/ Start \/ RunBegin \/ LoadState \/ FetchEmails \/ ProcessBatch
                \/ SaveLastMessage \/ SaveFinalState \/ SaveErrorState \/ StatusRoute

SpecFirstRun == InitLoop /\ [][NextFirstRun]_vars

\* POST /ingest/start when no coroutine of an earlier job is left.
StartAlone == Start /\ \A t \in Slots : tasks[t].kind = "free"

\* A job that is stopped, with no start while a coroutine of it is left.
NextStop == \/ StartAlone \/ Stop \/ RunBegin \/ LoadState \/ FetchEmails \/ ProcessBatch
            \/ SaveLastMessage \/ SaveFinalState \/ SaveErrorState \/ WakeUp

SpecStop == InitLoop /\ [][NextStop]_vars

\* The same with the event loop's guarantee that an asyncio.sleep ends: a sleeping
\* schedule_next_ingestion is resumed.
SpecStopFair == SpecStop /\ WF_vars(WakeUp)

InitMetrics == InitLoop

NextMetrics == RecordMetrics \/ CalculateInterval

SpecMetrics == InitMetrics /\ [][NextMetrics]_vars

InitStrategy == InitLoop

NextStrategy == NewVolumeStrategy \/ NewHybridStrategy \/ VolumeCalculate \/ HybridCalculate

SpecStrategy == InitStrategy /\ [][NextStrategy]_vars

NextTime == NewTimeStrategy \/ TimeCalculate

SpecTime == InitStrategy /\ [][NextTime]_vars

InitRoutes == InitLoop

\* The routes, with the runs they start going as far as their fetch or their end
\* in the exception handler.
NextRoutes == \/ StartRoute \/ StatusRoute \/ StopRoute
              \/ RunBegin \/ LoadState \/ SaveErrorState

SpecRoutes == InitRoutes /\ [][NextRoutes]_vars

NextBatch == BeginBatch \/ DetailDone \/ YieldResult

SpecBatch == InitLoop /\ [][NextBatch]_vars

InitRabbit == InitLoop

NextRabbit == \/ NewRabbitMQClient \/ Initialize \/ Connect \/ Close
              \/ PublishEmail \/ ExchangePublish

SpecRabbit == InitRabbit /\ [][NextRabbit]_vars

InitListing == InitLoop

NextListing == BeginListing \/ ListPage \/ ListFallbackPage

SpecListing == InitListing /\ [][NextListing]_vars

NextKeyspace == SaveLastMessageId \/ GetLastMessageId \/ SetSyncStatus \/ UpdateSyncMetrics

SpecKeyspace == InitLoop /\ [][NextKeyspace]_vars

NextConsumer == NewRabbitMQConsumer \/ OnMessage \/ ClassifierCallback \/ PublishResult

SpecConsumer == InitLoop /\ [][NextConsumer]_vars

(***************************************************************************)
(* Properties of the token bucket (SpecBucket).                            *)
(***************************************************************************)
\* Whole refill periods between the bucket's last_refill and the observed call.
PeriodsBefore == (obs.now - obs.before.last_refill) \div limiter.refill_time

\* C1: a bucket that exists holds between 0 and max_tokens tokens, in every state
\* reached from the lazily created bucket by acquire_tokens(n) with n >= 0, refill
\* steps, resets and elapsed time.
C1_TokenBounds ==
    bucket.tokens # None => (0 <= bucket.tokens /\ bucket.tokens <= limiter.max_tokens)

\* An acquire whose refill step hit the cap at max_tokens and which then took
\* every token: both ends of the range are met.
C1_Witness ==
    /\ obs.op = "acquire" /\ obs.ret
    /\ obs.before.tokens # None /\ obs.before.tokens < limiter.max_tokens
    /\ obs.before.tokens + PeriodsBefore * limiter.refill_rate > limiter.max_tokens
    /\ obs.refilled.tokens = limiter.max_tokens
    /\ bucket.tokens = 0

\* C7: an acquire_tokens(n) that finds fewer than n tokens after its refill step
\* returns False and leaves the bucket as the refill step left it; when no refill
\* period had elapsed, that is the bucket as it was before the call.
C7_FailedAcquireWritesNothing ==
    (obs.op = "acquire" /\ ~obs.ret) =>
        /\ obs.refilled.tokens < obs.n
        /\ bucket = obs.refilled
        /\ (obs.before.last_refill # None /\ PeriodsBefore = 0) => bucket = obs.before

\* A failed acquire on an existing bucket whose refill step added tokens, still
\* too few: the tokens added stay, none is taken.
C7_Witness ==
    /\ obs.op = "acquire" /\ ~obs.ret
    /\ obs.before.tokens # None
    /\ obs.refilled.tokens > obs.before.tokens
    /\ bucket.tokens > 0 /\ bucket.tokens < obs.n

C33_NoResetOfExistingBucket ==
    obs.op = "acquire" =>
        /\ obs.before = EmptyBucket =>
                obs.refilled = [tokens |-> limiter.max_tokens, last_refill |-> obs.now]
        /\ (obs.before.tokens # None /\ obs.before.last_refill # None) =>
                /\ bucket.tokens <= obs.refilled.tokens
                /\ IF PeriodsBefore = 0
                   THEN /\ bucket.tokens <= obs.before.tokens
                        /\ bucket.last_refill = obs.before.last_refill
                   ELSE bucket.tokens <= Min(limiter.max_tokens,
                            obs.before.tokens + PeriodsBefore * limiter.refill_rate)

\* An acquire on an existing, empty bucket within the refill period: it is
\* refused and the bucket is still empty, though max_tokens is above 0.
C33_Witness ==
    /\ obs.op = "acquire" /\ ~obs.ret /\ obs.n > 0
    /\ obs.before.tokens = 0 /\ obs.before.last_refill # None
    /\ PeriodsBefore = 0
    /\ bucket.tokens = 0 /\ bucket.last_refill = obs.before.last_refill

(***************************************************************************)
(* Properties of the list call (SpecFetch).                                *)
(***************************************************************************)
\* C9: a remote call is issued only when the acquire_tokens(1) before it returned
\* True.
C9_CallOnlyWithToken ==
    Len(call.statuses) > 0 => call.acquired = "true"

\* C10: a list call that the provider answers with 429 is retried: it ends with
\* RateLimitError only after max_retries attempts, all of them answered 429, with
\* the sleeps retry_delay * 2^attempt between them; and after max_retries such
\* answers the error it ends with is RateLimitError.
C10_RateLimitRetried ==
    LET n == Len(call.statuses)
        all429 == \A k \in 1..n : call.statuses[k] = 429
    IN  /\ (call.pc = "done" /\ call.result = "RateLimitError") =>
                /\ n = max_retries /\ all429
                /\ call.sleeps = [k \in 1..(max_retries - 1) |-> retry_delay * Pow2(k - 1)]
        /\ (call.pc = "done" /\ n = max_retries /\ all429) => call.result = "RateLimitError"

\* C12: an answer 401 or 403 ends the call: it is the last answer of the call,
\* the call is done with an exception for its caller, and no sleep follows it
\* (the sleeps are those after the earlier answers).
C12_AuthErrorNotRetried ==
    LET n == Len(call.statuses)
    IN  \A k \in 1..n :
            call.statuses[k] \in {401, 403} =>
                /\ k = n
                /\ call.pc = "done" /\ IsException(call.result)
                /\ Len(call.sleeps) = n - 1

\* A call whose first answer is 401 or 403: one attempt, no sleep, an exception.
C12_Witness ==
    /\ call.pc = "done"
    /\ Len(call.statuses) = 1 /\ call.statuses[1] \in {401, 403}
    /\ call.sleeps = <<>>
    /\ IsException(call.result)

C27_RetryWrapper ==
    call.client = "mock_func" =>
        LET n == Len(call.statuses)
        IN  /\ n <= max_retries
            /\ \A k \in 1..n :
                    call.statuses[k] # 429 =>
                        /\ k = n /\ call.pc = "done"
                        /\ call.result = call_outcome(call.op, "mock_func", call.statuses[k])
                        /\ call.statuses[k] # 200 => call.result = "HttpError"
            /\ (call.pc = "done" /\ \A k \in 1..n : call.statuses[k] = 429) =>
                    n = max_retries /\ call.result = "HttpError"
            /\ call.pc = "done" => Len(call.sleeps) = n - 1
            /\ \A a \in 0..(Len(call.sleeps) - 1) :
                    call.sleeps[a + 1] = retry_delay * Pow2(a)
            /\ (n = 1 /\ call.statuses[1] # 429) => call.sleeps = <<>>

\* Every attempt was answered 429: max_retries attempts, the sleeps 1, 2, 4, 8
\* between them, and the last error raised.
C27_Witness ==
    /\ call.client = "mock_func" /\ call.pc = "done"
    /\ call.statuses = [k \in 1..max_retries |-> 429]
    /\ call.sleeps = <<1, 2, 4, 8>>
    /\ call.result = "HttpError"

(***************************************************************************)
(* Properties of the ingestion loop (SpecLoop).                            *)
(***************************************************************************)
\* A run of ingest_emails_background for u that has begun and not ended.
Running(t, u) ==
    tasks[t].kind = "ingest" /\ tasks[t].user = u /\ tasks[t].pc # "begin"

\* A sleeping schedule_next_ingestion for u that would start a run if it woke now.
WillRun(t, u) ==
    /\ tasks[t].kind = "sched" /\ tasks[t].user = u
    /\ u \in DOMAIN active_ingestions
    /\ active_ingestions[u].status # "stopped"

\* C2: per user there is at most one loop instance: a running
\* ingest_emails_background or a pending schedule_next_ingestion that will start one.
C2_OneLoopPerUser ==
    \A u \in Users : Cardinality({t \in Slots : Running(t, u) \/ WillRun(t, u)}) <= 1

\* C3: a run that loaded a persisted cursor does not publish a chunk at or before
\* it: the chunk it has just published starts after last_message_id.
C3_ResumeAfterCursor ==
    \A t \in Slots :
        (tasks[t].kind = "ingest" /\ tasks[t].pc = "save_id"
            /\ tasks[t].last_message_id # None)
        => tasks[t].i + 1 > tasks[t].last_message_id

\* C4: a run in which the processing of a chunk failed goes on with the chunks
\* after it and ends completed: it is in its chunk loop, or past it with the
\* status completed, never in the exception handler.
C4_ChunkFailureIsolated ==
    \A t \in Slots :
        tasks[t].chunk_failed =>
            /\ tasks[t].pc \in {"process", "save_id", "save_state"}
            /\ tasks[t].pc = "save_state" =>
                    (tasks[t].user \in DOMAIN active_ingestions =>
                        active_ingestions[tasks[t].user].status = "completed")

\* C5: a job whose status is auth_error, service_error or error has a run ending,
\* a next run scheduled or a next run started: some coroutine is left to go on.
C5_ErrorRunReschedules ==
    \A u \in DOMAIN active_ingestions :
        active_ingestions[u].status \in {"auth_error", "service_error", "error"}
        => \E t \in Slots : tasks[t].kind \in {"ingest", "sched"} /\ tasks[t].user = u

\* C6: a job is created in starting, and its status changes only along
\* starting -> running -> {completed, stopped, error, auth_error, service_error}
\* and completed -> starting.
C6_StatusEdges ==
    [][LET StatusEdges ==
               {<<"starting", "running">>, <<"completed", "starting">>}
               \cup {<<"running", s>> : s \in {"completed", "stopped", "error",
                                                "auth_error", "service_error"}}
       IN  \A u \in Users :
            /\ (u \notin DOMAIN active_ingestions /\ u \in DOMAIN active_ingestions')
                    => active_ingestions'[u].status = "starting"
            /\ (u \in DOMAIN active_ingestions /\ u \in DOMAIN active_ingestions'
                    /\ active_ingestions'[u].status # active_ingestions[u].status)
                    => <<active_ingestions[u].status, active_ingestions'[u].status>>
                            \in StatusEdges
      ]_vars

\* C11: a run that failed on the provider's answer has the status of that cause:
\* auth_error after 401 or 403, service_error after a rate limit (429) or another
\* error of the remote service, and not the generic error.
C11_SpecificStatus ==
    \A t \in Slots :
        (tasks[t].kind = "ingest" /\ tasks[t].pc = "save_error"
            /\ tasks[t].user \in DOMAIN active_ingestions)
        => LET status == active_ingestions[tasks[t].user].status
           IN  /\ tasks[t].cause \in {401, 403} => status = "auth_error"
               /\ tasks[t].cause \in {429, 500} => status = "service_error"

\* C13: in a run, the cursor is written for a chunk only when that chunk has been
\* published; the cursor then names the last message of that chunk, every message
\* up to it has been published by the run, and the run goes on with the chunk
\* that follows in fetch order.  Nothing else writes the cursor.
C13_CursorAfterPublish ==
    [][/\ \A t \in Slots :
            (tasks[t].kind = "ingest" /\ tasks[t].pc = "save_id" /\ tasks'[t] # tasks[t])
            => LET f == tasks[t]
                   u == f.user
               IN  /\ (f.i + 1)..ChunkEnd(f) \subseteq f.published
                   /\ last_message'[u] \in {last_message[u], ChunkEnd(f)}
                   /\ last_message'[u] = ChunkEnd(f) => 1..ChunkEnd(f) \subseteq f.published
                   /\ (tasks'[t].kind = "ingest" /\ tasks'[t].pc = "process")
                        => tasks'[t].i = ChunkEnd(f)
       /\ last_message' # last_message
            => \E t \in Slots : /\ tasks[t].kind = "ingest" /\ tasks[t].pc = "save_id"
                                /\ tasks'[t] # tasks[t]
      ]_vars

\* A run at its second chunk, with the first chunk published and its cursor written.
C13_Witness ==
    \E t \in Slots :
        /\ tasks[t].kind = "ingest" /\ tasks[t].pc = "process"
        /\ tasks[t].i >= BatchSize /\ tasks[t].i < tasks[t].emails
        /\ tasks[t].published = 1..tasks[t].i
        /\ last_message[tasks[t].user] = tasks[t].i

\* C14: after stop(user) with no later start, a coroutine of that user's job that
\* goes on publishes at most the chunk it was processing when the stop came (that
\* chunk is published whole unless its own processing raises), begins the
\* processing of no chunk, and starts no further run: a sleeping
\* schedule_next_ingestion ends at its wake-up.
C14_StopAtBatchBoundary ==
    [][\A t \in Slots :
        (tasks[t].kind # "free" /\ tasks[t].user \notin DOMAIN active_ingestions
            /\ tasks[t].user \notin DOMAIN active_ingestions' /\ tasks'[t] # tasks[t])
        => LET f == tasks[t]
               chunk == (f.i + 1)..ChunkEnd(f)
           IN  /\ ~(tasks'[t].kind = "ingest" /\ tasks'[t].pc \in {"begin", "process"})
               /\ tasks'[t].published \subseteq
                        f.published \cup (IF f.pc = "process" THEN chunk ELSE {})
               /\ (f.pc = "process" /\ tasks'[t].kind = "ingest")
                    => /\ tasks'[t].pc = "save_id"
                       /\ tasks'[t].published = f.published \cup chunk
               /\ f.kind = "sched" => tasks'[t] = FreeFrame
               /\ tasks'[t].kind \in {"free", f.kind}
      ]_vars

\* A stop came while a chunk was being processed, and the chunk has been published.
C14_Witness ==
    \E t \in Slots :
        /\ tasks[t].kind = "ingest" /\ tasks[t].pc = "save_id"
        /\ tasks[t].user \notin DOMAIN active_ingestions
        /\ (tasks[t].i + 1)..ChunkEnd(tasks[t]) \subseteq tasks[t].published
        /\ tasks[t].emails > ChunkEnd(tasks[t])

C16_StoreFailureTolerated ==
    [][\A t \in Slots :
        (/\ tasks[t].kind = "ingest" /\ tasks'[t] # tasks[t]
         /\ \/ tasks[t].pc = "load" /\ tasks[t].bypass # "absent"
            \/ tasks[t].pc \in {"save_id", "save_state"})
        => LET f == tasks[t]
               u == f.user
           IN  /\ tasks'[t].kind # "free" /\ tasks'[t].pc # "save_error"
               /\ tasks'[t].exc = "none"
               /\ u \in DOMAIN active_ingestions'
               /\ f.pc = "load" =>
                    /\ tasks'[t].pc = "fetch"
                    /\ active_ingestions'[u].status = "running"
               /\ (f.pc = "save_id" /\ ChunkEnd(f) < f.emails) =>
                    /\ tasks'[t].pc = "process" /\ tasks'[t].i = ChunkEnd(f)
                    /\ active_ingestions'[u].status = "running"
               /\ (f.pc = "save_id" /\ ChunkEnd(f) = f.emails) =>
                    /\ tasks'[t].pc = "save_state"
                    /\ active_ingestions'[u].status = "completed"
               /\ f.pc = "save_state" =>
                    /\ tasks'[t].kind = "sched"
                    /\ active_ingestions'[u].status = "completed"
      ]_vars

\* A run has ended completed, with every chunk counted and the next run scheduled,
\* although no call of the store succeeded: no cursor and no sample is stored.
C16_Witness ==
    \E t \in Slots :
        /\ tasks[t].kind = "sched"
        /\ tasks[t].user \in DOMAIN active_ingestions
        /\ active_ingestions[tasks[t].user].status = "completed"
        /\ active_ingestions[tasks[t].user].emails_processed = MailboxSize
        /\ last_message[tasks[t].user] = None
        /\ metrics[tasks[t].user] = <<>>

\* C17: a store operation reports a failure of the connection to the store
\* (when it is set up, on a command, or a timeout) as one error kind, and stored
\* text that is not JSON as another kind, which is neither that one nor a success.
C17_DistinctErrorKinds ==
    LET unavailable == redis_operation("get_sync_metrics", "ConnectionError")
    IN  /\ store_obs.fault \in {"initialize", "ConnectionError", "TimeoutError"}
            => store_obs.raised = unavailable
        /\ store_obs.fault = "JSONDecodeError"
            => store_obs.raised \notin {"none", unavailable}

(***************************************************************************)
(* Properties of the ingestion loop on the store and the strategy          *)
(* (SpecLoop).                                                             *)
(***************************************************************************)
\* C18: when a run has completed, the next run is scheduled after the interval
\* that the polling strategy returns for the user's stored metrics, the samples of
\* the run included.
C18_NextRunAfterStrategyInterval ==
    [][\A t \in Slots :
        (tasks[t].kind = "ingest" /\ tasks[t].pc = "save_state"
            /\ tasks'[t].kind = "sched")
        => tasks'[t].next_sync = volume_interval(metrics'[tasks[t].user])
      ]_vars

\* C19: calculate_optimal_polling_interval_minutes, when the store answers, gives
\* the strategy the user's whole stored list of samples (oldest first) and returns
\* what the strategy returns for it; with no sample stored it returns 5.
C19_StrategyOnWholeList ==
    (store_obs.op = "calculate_optimal_polling_interval_minutes"
        /\ store_obs.fault = "none")
    => LET metrics_list == metrics[store_obs.user]
           whole == [kind |-> "list", value |-> metrics_list]
       IN  IF metrics_list = <<>>
           THEN store_obs.result = 5
           ELSE /\ store_obs.arg = whole
                /\ store_obs.result = calculate_polling_interval_minutes(whole).value

\* C20: each sample the loop has stored for a chunk carries the chunk's size as
\* its email_count, the key the volume-based strategy averages.
C20_SampleCountsChunk ==
    \A u \in Users : \A k \in 1..Len(metrics[u]) :
        /\ HasCount(metrics[u][k])
        /\ metrics[u][k].email_count = metrics[u][k].batch_size

(***************************************************************************)
(* Properties of the polling strategies (SpecStrategy).                    *)
(***************************************************************************)
\* C21: a volume strategy constructed with thresholds and intervals (the class
\* constants for those left out) returns, for a non-empty list whose samples all
\* have an email_count, of average a: the high interval if a >= the high
\* threshold, the medium interval if medium threshold <= a < high threshold, the
\* low interval otherwise; for the empty list it returns 5.
C21_VolumeRule ==
    (strategy.kind = "volume" /\ strategy_obs.op = "calculate_polling_interval_minutes")
    => LET Configured(x, d) == IF x = None THEN d ELSE x
           high == Configured(strategy.args.high_volume_threshold, HIGH_VOLUME_THRESHOLD)
           medium == Configured(strategy.args.medium_volume_threshold,
                                MEDIUM_VOLUME_THRESHOLD)
           high_interval == Configured(strategy.args.high_volume_interval,
                                       HIGH_VOLUME_INTERVAL)
           medium_interval == Configured(strategy.args.medium_volume_interval,
                                         MEDIUM_VOLUME_INTERVAL)
           low_interval == Configured(strategy.args.low_volume_interval,
                                      LOW_VOLUME_INTERVAL)
           m == strategy_obs.metrics
           n == Len(m)
           total == SumCounts(m)
       IN  IF m = <<>> THEN strategy_obs.result = 5
           ELSE (\A k \in 1..n : m[k].email_count # None)
                => strategy_obs.result =
                        IF total >= high * n THEN high_interval
                        ELSE IF total >= medium * n THEN medium_interval
                        ELSE low_interval

\* C22: a hybrid strategy returns, for the intervals v of its volume strategy and
\* t of its time strategy and the hour of the call, min(v, t) when the preference of
\* the hour's window is shorter and max(v, t) when it is longer, the window being
\* business hours when business_hours_start <= hour < business_hours_end and
\* off-hours otherwise; the result is v or t.
C22_HybridMinMax ==
    (strategy.kind = "hybrid" /\ strategy_obs.op = "calculate_polling_interval_minutes")
    => LET v == strategy_obs.volume_interval
           t == strategy_obs.time_interval
           hour == strategy_obs.current_hour
           business == /\ strategy.time_strategy.business_hours_start <= hour
                       /\ hour < strategy.time_strategy.business_hours_end
           preference == IF business THEN strategy.business_hours_preference
                         ELSE strategy.off_hours_preference
           shorter == IF v <= t THEN v ELSE t
           longer == IF v <= t THEN t ELSE v
       IN  /\ preference = "shorter" => strategy_obs.result = shorter
           /\ preference = "longer" => strategy_obs.result = longer
           /\ strategy_obs.result \in {v, t}
           /\ v = volume_strategy_interval(strategy.volume_strategy, strategy_obs.metrics)

\* A call in off-hours with the preference longer returned the time strategy's
\* interval, the longer of the two.
C22_Witness ==
    /\ strategy.kind = "hybrid" /\ strategy_obs.op = "calculate_polling_interval_minutes"
    /\ strategy_obs.volume_interval # strategy_obs.time_interval
    /\ strategy.off_hours_preference = "longer"
    /\ strategy_obs.current_hour >= strategy.time_strategy.business_hours_end
    /\ strategy_obs.result = strategy_obs.time_interval
    /\ strategy_obs.time_interval > strategy_obs.volume_interval

\* C23: a hybrid strategy object has the preferences shorter or longer for both
\* windows: a constructor call with another value raises and leaves no object, so
\* no calculation meets one.
C23_ValidPreferences ==
    /\ strategy.kind = "hybrid" =>
            /\ strategy.business_hours_preference \in {"shorter", "longer"}
            /\ strategy.off_hours_preference \in {"shorter", "longer"}
    /\ (strategy_obs.op = "HybridPollingStrategy" /\ strategy_obs.raised = "none")
            => strategy.kind = "hybrid"

\* A constructor call has raised ValueError, and no hybrid strategy came of it.
C23_Witness ==
    /\ strategy_obs.op = "HybridPollingStrategy"
    /\ strategy_obs.raised = "ValueError"
    /\ strategy.kind # "hybrid"

(***************************************************************************)
(* Properties of the listings (SpecListing).                               *)
(***************************************************************************)
\* C24: a listing that has returned holds at most max_emails message ids, whatever
\* the page size and the maximum, a maximum below the page size included.
C24_AtMostMaxEmails ==
    (listing.pc = "returned" /\ listing.raised = "none")
    => Len(listing.all_emails) <= listing.max_emails

\* C25: in get_emails_since the fallback query in:anywhere is issued only when
\* the first query was issued and matched nothing, and then it is issued, once:
\* its list calls are one paging sequence from the first page on.  A listing whose
\* first query found something makes no fallback call, and get_all_emails makes none.
C25_FallbackIffEmpty ==
    LET calls == listing.calls
        Primary == {k \in 1..Len(calls) : calls[k].phase = "paging"}
        Fallback == {k \in 1..Len(calls) : calls[k].phase = "fallback"}
        found_nothing == Primary # {} /\ matching(listing, calls[1].query) = 0
    IN  /\ (Fallback # {} \/ listing.pc = "fallback")
            => /\ listing.method = "get_emails_since"
               /\ found_nothing
        /\ (listing.pc = "returned" /\ listing.method = "get_emails_since"
                /\ found_nothing /\ listing.raised = "none")
            => Fallback # {}
        /\ \A k \in Fallback :
                /\ calls[k].query = "in:anywhere"
                /\ \A j \in Primary : j < k
        /\ Cardinality({k \in Fallback : calls[k].page_token = None}) <= 1
        /\ \A j, k \in Fallback :
                j < k => /\ calls[k].page_token # None
                         /\ \/ calls[j].page_token = None
                            \/ calls[j].page_token < calls[k].page_token

\* A listing whose time-windowed query matched nothing has returned what the
\* fallback query found, over more than one page.
C25_Witness ==
    /\ listing.method = "get_emails_since" /\ listing.pc = "returned"
    /\ listing.raised = "none" /\ listing.calls # <<>>
    /\ listing.calls[1].query = "newer_than" /\ listing.calls[1].phase = "paging"
    /\ listing.all_emails # <<>>
    /\ \E k \in 1..Len(listing.calls) :
            listing.calls[k].phase = "fallback" /\ listing.calls[k].page_token # None

(***************************************************************************)
(* Properties of the routes (SpecRoutes).                                  *)
(***************************************************************************)
\* C28: a start for a user with an entry returns that entry and changes neither
\* the active set nor the tasks; a stop or a status for a user without an entry
\* raises the not-found error and changes neither; a stop for a user with an
\* entry sets the status stopped on it and removes it from the active set.
C28_Routes ==
    [][response' # response =>
        LET r == response'
            u == r.user
            had == u \in DOMAIN active_ingestions
        IN  /\ (r.route = "start" /\ had) =>
                /\ r.raised = "none" /\ r.body = active_ingestions[u]
                /\ UNCHANGED <<active_ingestions, tasks>>
            /\ (r.route = "start" /\ ~had) =>
                /\ u \in DOMAIN active_ingestions'
                /\ active_ingestions'[u].status = "starting"
            /\ (r.route \in {"stop", "status"} /\ ~had) =>
                /\ r.raised = "ResourceNotFoundError"
                /\ UNCHANGED <<active_ingestions, tasks>>
            /\ (r.route = "status" /\ had) =>
                /\ r.raised = "none" /\ r.body = active_ingestions[u]
                /\ UNCHANGED <<active_ingestions, tasks>>
            /\ (r.route = "stop" /\ had) =>
                /\ r.raised = "none" /\ r.body.status = "stopped"
                /\ DOMAIN active_ingestions' = DOMAIN active_ingestions \ {u}
                /\ \A v \in DOMAIN active_ingestions' :
                        active_ingestions'[v] = active_ingestions[v]
      ]_vars

\* A start for a user whose job is running has returned the running status, and
\* the user still has the one task.
C28_Witness ==
    /\ response.route = "start" /\ response.user \in DOMAIN active_ingestions
    /\ response.body.status = "running"
    /\ active_ingestions[response.user].status = "running"
    /\ Cardinality({t \in Slots : tasks[t].kind # "free"}) = 1

(***************************************************************************)
(* Properties of the RabbitMQ client (SpecRabbit).                         *)
(***************************************************************************)
\* C29: a call of initialize makes at most max_retries connection attempts; an
\* attempt is made only on an uninitialized client; a successful attempt makes
\* the client initialized and ends the loop; the failure that brings the count
\* of failures to max_retries raises ConfigurationError with the client left
\* uninitialized, an earlier one goes on to the next attempt; publish_email on
\* an uninitialized client goes through initialize before anything is
\* published, and a message is published only on an initialized client.
C29_InitializeRetries ==
    [][LET r == rabbit'
       IN  /\ r.attempts <= r.max_retries
           /\ r.attempts = rabbit.attempts + 1 =>
                /\ ~rabbit.initialized
                /\ r.last = "ok" =>
                    r.initialized /\ r.pc # "connect" /\ r.raised = "none"
                /\ r.last = "AMQPConnectionError" =>
                    /\ r.retry_count = rabbit.retry_count + 1
                    /\ ~r.initialized
                    /\ IF r.retry_count = r.max_retries
                       THEN r.pc = "idle" /\ r.raised = "ConfigurationError"
                       ELSE r.pc = "connect" /\ r.raised = "none"
           /\ (rabbit.pc = "idle" /\ r.method = "publish_email" /\ r.pc # "idle"
                /\ ~rabbit.initialized) =>
                r.pc = "connect" /\ r.published = rabbit.published
           /\ r.published = rabbit.published + 1 =>
                rabbit.initialized /\ r.initialized
      ]_vars

\* A client with max_retries = 3 has raised ConfigurationError out of initialize
\* after three failed attempts, uninitialized.
C29_Witness ==
    /\ rabbit.method = "initialize" /\ rabbit.pc = "idle"
    /\ rabbit.max_retries = 3 /\ rabbit.attempts = 3 /\ rabbit.retry_count = 3
    /\ rabbit.last = "AMQPConnectionError"
    /\ rabbit.raised = "ConfigurationError" /\ ~rabbit.initialized

(***************************************************************************)
(* Properties of the progress counter (SpecFirstRun).                      *)
(***************************************************************************)
\* C30: when the await of process_email_batch for a chunk ends, with the chunk
\* published or with an error, emails_processed of the job equals the number of
\* messages in the chunks the run has published; and the counter never decreases.
C30_CounterCountsPublished ==
    [][/\ \A t \in Slots :
            (/\ tasks[t].kind = "ingest" /\ tasks[t].pc = "process"
             /\ tasks'[t].pc # "process"
             /\ tasks[t].user \in DOMAIN active_ingestions') =>
                LET published == IF tasks'[t].pc = "save_id" THEN tasks'[t].published
                                 ELSE tasks[t].published
                IN  active_ingestions'[tasks[t].user].emails_processed
                        = Cardinality(published)
       /\ \A u \in DOMAIN active_ingestions \cap DOMAIN active_ingestions' :
            active_ingestions'[u].emails_processed >= active_ingestions[u].emails_processed
      ]_vars

(***************************************************************************)
(* Properties of a sequence of acquire calls (SpecSequence).               *)
(***************************************************************************)
\* C31: in a sequence of acquire_tokens calls with no refill period elapsing,
\* the sum of n over the calls that returned True is at most the token count at
\* the start of the sequence, and the token count is the starting count minus
\* that sum.
C31_GrantedWithinStart ==
    sequence.active =>
        /\ sequence.granted <= sequence.start
        /\ bucket.tokens = sequence.start - sequence.granted

\* Three calls, granted and refused ones among them, have taken the whole of a
\* starting count of 3.
C31_Witness ==
    /\ sequence.active /\ sequence.calls = 3
    /\ sequence.start = 3 /\ sequence.granted = 3 /\ bucket.tokens = 0
    /\ obs.op = "acquire" /\ ~obs.ret

(***************************************************************************)
(* Properties of workers sharing the bucket (SpecWorkers).                 *)
(***************************************************************************)
\* C32: two workers whose acquire_tokens(1) calls ran at the same time and both
\* found exactly 1 token in the bucket, neither having reset or refilled it, are
\* not both granted.
C32_NoDoubleGrant ==
    ~ \A w \in Workers :
        /\ workers[w].pc = "done" /\ workers[w].ret /\ workers[w].n = 1
        /\ workers[w].overlap
        /\ workers[w].current_tokens = 1 /\ ~workers[w].wrote

(***************************************************************************)
(* Properties of the batch fetch (SpecBatch).                              *)
(***************************************************************************)
\* C34: when get_emails_batch has ended, it has given one outcome per input id,
\* the messages it yielded and the error it raised counted together, and the
\* message of every id whose detail fetch returned one has been yielded.
C34_OneOutcomePerId ==
    batch.pc = "done" =>
        /\ Len(batch.yielded) + (IF batch.raised # "none" THEN 1 ELSE 0) = batch.ids
        /\ \A i \in 1..batch.ids :
                batch.results[i] = "message" => \E k \in 1..Len(batch.yielded) : batch.yielded[k] = i

(***************************************************************************)
(* Properties of the time-based strategy (SpecTime).                       *)
(***************************************************************************)
\* C35: a time strategy returns, whatever the metrics, the business interval for
\* business_hours_start <= h < business_hours_end, the evening interval for
\* business_hours_end <= h < evening_hours_end, and the night interval for every
\* other hour, the evening end hour among them.
C35_HourToInterval ==
    (strategy.kind = "time" /\ strategy_obs.op = "calculate_polling_interval_minutes") =>
        LET self == strategy.time_strategy
            h == strategy_obs.current_hour
        IN  strategy_obs.result =
                IF self.business_hours_start <= h /\ h < self.business_hours_end
                THEN self.business_hours_interval
                ELSE IF self.business_hours_end <= h /\ h < self.evening_hours_end
                THEN self.evening_hours_interval
                ELSE self.night_hours_interval

(***************************************************************************)
(* Properties of the scheduled re-run (SpecStopFair).                      *)
(***************************************************************************)
\* C36: the sleep of the scheduler that a completed run left ends; when it ends
\* with the user in the active set and not stopped, exactly one run of the user
\* is started, with the run's config; when it ends with the user stopped or
\* absent, no run is started.
C36_OneNextRun ==
    /\ [][\A t \in Slots :
            (tasks[t].kind = "sched" /\ tasks[t].pc = "sleep" /\ tasks'[t] # tasks[t]) =>
                LET u == tasks[t].user
                    runs(ts) == Cardinality({s \in Slots : ts[s].kind = "ingest" /\ ts[s].user = u})
                IN  IF u \in DOMAIN active_ingestions /\ active_ingestions[u].status # "stopped"
                    THEN /\ tasks'[t] = NewIngest(u, tasks[t].bypass,
                                                  tasks[t].polling_frequency_minutes)
                         /\ runs(tasks') = runs(tasks) + 1
                    ELSE /\ tasks'[t] = FreeFrame
                         /\ runs(tasks') = runs(tasks)
        ]_vars
    /\ \A t \in Slots :
            (tasks[t].kind = "sched" /\ tasks[t].pc = "sleep") ~> (tasks[t].kind # "sched")

\* The next run of a job whose last run completed has been started by the
\* scheduler and has not yet set the status to running.
C36_Witness ==
    \E t \in Slots :
        /\ tasks[t].kind = "ingest" /\ tasks[t].pc = "begin"
        /\ tasks[t].user \in DOMAIN active_ingestions
        /\ active_ingestions[tasks[t].user].status = "completed"

(***************************************************************************)
(* Properties of SyncStateManager over a shared keyspace (SpecKeyspace).   *)
(***************************************************************************)
\* C37: for every user, get_last_message_id reads None until a
\* save_last_message_id for that user has returned, and from then on the id of
\* the last such call; the status and the metrics a user's keys hold are those
\* of the calls made for that user, whatever was called for another user; and a
\* get_last_message_id call that returns, returns that id.
C37_CursorPerUser ==
    /\ \A u \in StoreUsers :
        /\ get_last_message_id(redis, u) = sync_calls.accepted[u].last_message
        /\ get_sync_status(redis, u) = sync_calls.accepted[u].status
        /\ get_sync_metrics(redis, u) = sync_calls.accepted[u].metrics
    /\ (sync_calls.last.op = "get_last_message_id" /\ sync_calls.last.raised = "none") =>
            sync_calls.last.result = sync_calls.accepted[sync_calls.last.user].last_message

\* A get_last_message_id returned one user's id while the other user had another
\* id, a status and metrics stored.
C37_Witness ==
    /\ sync_calls.last.op = "get_last_message_id"
    /\ sync_calls.last.raised = "none"
    /\ sync_calls.last.result = 1
    /\ \E v \in StoreUsers \ {sync_calls.last.user} :
        /\ sync_calls.accepted[v].last_message = 2
        /\ sync_calls.accepted[v].status # <<>>
        /\ sync_calls.accepted[v].metrics # <<>>

(***************************************************************************)
(* Properties of the classification consumer (SpecConsumer).               *)
(***************************************************************************)
\* C38: every message delivered to _on_message is acknowledged once when its
\* handler ends and not before, and is never rejected or requeued; a message
\* whose body is not JSON or not an email, whose classification raised or whose
\* result could not be published has left an error in the log and is
\* acknowledged like any other.
C38_AckedOnceNeverRequeued ==
    \A i \in DOMAIN consumer.deliveries :
        LET d == consumer.deliveries[i]
        IN  /\ d.requeues = 0
            /\ d.rejects = 0
            /\ d.raised = "none"
            /\ d.acks = (IF d.pc = "done" THEN 1 ELSE 0)
            /\ (d.pc = "done" /\ d.failure # "none") => d.logs # {}
            /\ d.published => d.failure = "none"

\* One message whose classification raised and one whose result could not be
\* published have both been handled to the end and acknowledged.
C38_Witness ==
    /\ \E i \in DOMAIN consumer.deliveries :
        /\ consumer.deliveries[i].failure = "classifier"
        /\ consumer.deliveries[i].acks = 1
    /\ \E i \in DOMAIN consumer.deliveries :
        /\ consumer.deliveries[i].failure = "publish"
        /\ consumer.deliveries[i].acks = 1

====
